---- MODULE Spec2Model ----
(***************************************************************************)
(* Live wallet monitoring of Gator: the per-chain subscription adapters    *)
(* (WalletStalker, SolanaWalletStalker), the singleton directory           *)
(* (get_stalker) of src/stalker_service.py, and the control-channel        *)
(* gateway (stalker_websocket, on_wallet_activity) of src/backend_api.py.  *)
(*                                                                         *)
(* Everything runs on one asyncio event loop.  A task runs alone from one  *)
(* await to the next, so each action below is the code between two         *)
(* suspension points of one task.  The receive loop is the one task that   *)
(* is modelled in finer steps (one watched wallet per step); while it is   *)
(* between two such steps (pc "iter") no other task may take a step.       *)
(***************************************************************************)
EXTENDS Integers, Sequences, FiniteSets, TLC

\* ------------------------------------------------------------- bounds
MaxInst == 2          \* adapter objects ever constructed
MaxNow == 7200        \* seconds datetime.utcnow() moves on in one run
TicksPerSecond == 2   \* instants of datetime.utcnow() told apart within a second
MaxPending == 2       \* provider responses not yet read from one transport
MaxCmds == 3          \* commands the clients of one run send in all
MaxSessionCmds == 2   \* the same, in the runs that follow the notifications
MaxFresh == 1         \* never-repeated identifiers that arrive in one run
MaxMatchCmds == 2     \* commands, in the runs that check the address matching
MaxStatusCmds == 2    \* commands, in the runs that check the status reports
MaxCallbackCmds == 2  \* commands, in the runs that check the callback registration
MaxAnswerCmds == 2    \* commands, in the runs that check that commands are answered
MaxJunk == 2          \* inbound messages that are no notification, in one run
MaxFrames == 2        \* client frames, in the runs with frames that are no command
MaxCleanupCmds == 2   \* commands, in the runs where cleanup_stalkers meets live handlers

\* ------------------------------------------------- program constants
SeenCap == 100        \* len(self.last_seen_txs[wallet]) > 100

\* ------------------------------------------------------------ domains
Clients == {"A", "B"}                 \* client connections (WebSocket objects)
Insts == 1..MaxInst                   \* adapter objects, in order of construction
NoInst == 0
EvmChains == {"ethereum"}
Chains == EvmChains \cup {"solana"}
None == "None"
WalletInputs == {"0xAA", "0xaa", "0xbb"}   \* addresses as a client types them
Txs == {"t1", "t2"}                   \* identifiers that may arrive more than once
Fresh == "fresh"                      \* an identifier that arrives this once only
NoTx == "notx"                        \* a notification without transactionHash/signature

\* str.lower() on the addresses of the model
Lower(s) == IF s = "0xAA" THEN "0xaa" ELSE s

\* the empty dict, dict[k] = v, dict.pop(k, None)
EmptyDict == [x \in {} |-> None]
Put(d, k, v) == [x \in (DOMAIN d) \cup {k} |-> IF x = k THEN v ELSE d[x]]
Drop(d, k) == [x \in (DOMAIN d) \ {k} |-> d[x]]

VARIABLES
    active_stalker_connections, \* backend_api: the registered client channels
    stalker_instances,          \* _stalker_instances: EVM chain -> adapter
    solana_stalker,             \* _solana_stalker: adapter or NoInst
    chain_of,                   \* adapter -> its chain (None: not constructed)
    connected,                  \* adapter -> self.connected
    websocket,                  \* adapter -> None | "open" | "closed"
    watched_wallets,            \* adapter -> set of wallets
    subscription_ids,           \* adapter -> dict wallet -> subscription id
    last_seen_txs,              \* adapter -> dict wallet -> recent-event set
    last_activity,              \* adapter -> dict wallet -> time
    on_activity,                \* adapter -> None | "on_wallet_activity"
    task,                       \* adapter -> its _listen_loop task
    pending,                    \* adapter -> number of responses still to be read
    handler,                    \* client -> its stalker_websocket task
    now,                        \* datetime.utcnow()
    calls,                      \* history: the _handle_wallet_activity calls
    session,                    \* history: per adapter and wallet, this watch session
    scope,                      \* the chains the clients of this run name
    tracing,                    \* the histories this run records
    recv_policy,                \* what a second concurrent recv() gets in this run
    budget,                     \* commands the clients may still send in this run
    fresh_left,                 \* never-repeated identifiers still to arrive
    junk_left,                  \* inbound messages that are no notification, still to arrive
    first_returned,             \* history: per chain, the adapter get_stalker returned first
    closer                      \* the task of shutdown_event / cleanup_stalkers

vars == <<active_stalker_connections, stalker_instances, solana_stalker, chain_of,
          connected, websocket, watched_wallets, subscription_ids, last_seen_txs,
          last_activity, on_activity, task, pending, handler, now, calls, session,
          scope, tracing, recv_policy, budget, fresh_left, junk_left, first_returned, closer>>

adapterVars == <<connected, websocket, watched_wallets, subscription_ids,
                 last_seen_txs, last_activity, on_activity>>
dirVars == <<stalker_instances, solana_stalker, chain_of>>
histVars == <<calls, session, scope, tracing, recv_policy, budget, fresh_left, junk_left, first_returned>>

IsEvm(i) == chain_of[i] \in EvmChains
IsSolana(i) == chain_of[i] = "solana"
Live(i) == chain_of[i] # None

\* ------------------------------------------------- recent-event sets
\* A recent-event set is a Python set of identifiers.  The identifiers that
\* can arrive again are kept by name (ids); those that arrived once and never
\* return are only counted (anon).
EmptySeen == [ids |-> {}, anon |-> 0]
SeenLen(e) == Cardinality(e.ids) + e.anon
SeenHas(e, tx) == tx \in e.ids
SeenAdd(e, tx) ==
    IF tx = Fresh THEN [e EXCEPT !.anon = @ + 1] ELSE [e EXCEPT !.ids = @ \cup {tx}]
\* set.pop(): removes an arbitrary member; the results it can leave
SeenPopResults(e) ==
    {[e EXCEPT !.ids = @ \ {v}] : v \in e.ids}
      \cup (IF e.anon > 0 THEN {[e EXCEPT !.anon = @ - 1]} ELSE {})

\* self.last_seen_txs[wallet] of the defaultdict(set)
SeenOf(i, w) ==
    IF w \in DOMAIN last_seen_txs[i] THEN last_seen_txs[i][w] ELSE EmptySeen

\* ------------------------------------------------------------- tasks
IdleTask == [pc |-> "none", tx |-> NoTx, addr |-> None, topics |-> {},
             start |-> {}, seen |-> {},
             bstart |-> {}, bseen |-> {}, bcur |-> None, bfailed |-> {},
             bres |-> "none", bmut |-> FALSE]
\* cleanup_stalkers has not been called: st is the adapter being disconnected,
\* todo what is left of "list(self.watched_wallets)", cur the wallet whose
\* unwatch_wallet call is suspended, raised the wallets whose unsubscribe request
\* raised, closed the adapters whose disconnect() has returned, chains the keys
\* of _stalker_instances when its iteration began, visited the keys it has
\* yielded
IdleCloser == [pc |-> "off", st |-> NoInst, todo |-> {}, cur |-> None,
               raised |-> {}, closed |-> {}, chains |-> {}, visited |-> {}]
IdleHandler == [pc |-> "off", action |-> None, wallet |-> None, chain |-> None,
                st |-> NoInst, ret |-> None, ans |-> None, late |-> FALSE,
                report |-> EmptyDict]

\* The state after import of both modules, before any client has connected
Constructed ==
    /\ active_stalker_connections = {}
    /\ stalker_instances = EmptyDict
    /\ solana_stalker = NoInst
    /\ chain_of = [i \in Insts |-> None]
    /\ connected = [i \in Insts |-> FALSE]
    /\ websocket = [i \in Insts |-> None]
    /\ watched_wallets = [i \in Insts |-> {}]
    /\ subscription_ids = [i \in Insts |-> EmptyDict]
    /\ last_seen_txs = [i \in Insts |-> EmptyDict]
    /\ last_activity = [i \in Insts |-> EmptyDict]
    /\ on_activity = [i \in Insts |-> None]
    /\ task = [i \in Insts |-> IdleTask]
    /\ pending = [i \in Insts |-> 0]
    /\ handler = [c \in Clients |-> IdleHandler]
    /\ now = 0
    /\ calls = << >>
    /\ session = [i \in Insts |-> EmptyDict]
    /\ first_returned = [ch \in Chains |-> NoInst]
    /\ closer = IdleCloser

\* Each run addresses one chain, so one adapter variant
Init ==
    /\ Constructed
    /\ scope \in {{ch} : ch \in Chains}
    /\ tracing = {}
    /\ recv_policy = "either"
    /\ budget = MaxCmds
    /\ fresh_left = 0
    /\ junk_left = 0

\* Every client has connected and been greeted; nothing else has happened
Greeted ==
    /\ active_stalker_connections = Clients
    /\ handler = [c \in Clients |-> [IdleHandler EXCEPT !.pc = "idle"]]
    /\ stalker_instances = EmptyDict
    /\ solana_stalker = NoInst
    /\ chain_of = [i \in Insts |-> None]
    /\ connected = [i \in Insts |-> FALSE]
    /\ websocket = [i \in Insts |-> None]
    /\ watched_wallets = [i \in Insts |-> {}]
    /\ subscription_ids = [i \in Insts |-> EmptyDict]
    /\ last_seen_txs = [i \in Insts |-> EmptyDict]
    /\ last_activity = [i \in Insts |-> EmptyDict]
    /\ on_activity = [i \in Insts |-> None]
    /\ task = [i \in Insts |-> IdleTask]
    /\ pending = [i \in Insts |-> 0]
    /\ now = 0
    /\ calls = << >>
    /\ session = [i \in Insts |-> EmptyDict]
    /\ first_returned = [ch \in Chains |-> NoInst]
    /\ closer = IdleCloser

InitControl ==
    /\ Greeted
    /\ scope \in {{ch} : ch \in Chains}
    /\ tracing = {}
    /\ recv_policy = "either"
    /\ budget = MaxCmds
    /\ fresh_left = 0
    /\ junk_left = 0

\* The thresholds of get_watched_wallets_status, in seconds
ActiveWindow == 30
HourSeconds == 3600
MinuteSeconds == 60

\* The values of datetime.utcnow() the runs tell apart, in ticks: the seconds
\* around the thresholds, a few others, and the instants within them
Marks == {0, 10, ActiveWindow - 1, ActiveWindow, HourSeconds - 1, HourSeconds,
          3700, MaxNow}
Instants ==
    {s * TicksPerSecond + f : s \in {m \in Marks : m <= MaxNow},
                              f \in 0..(TicksPerSecond - 1)}

\* datetime.utcnow() moves on
Tick ==
    /\ \E t \in Instants : t > now /\ now' = t
    /\ UNCHANGED <<active_stalker_connections, dirVars, adapterVars, task, pending,
                   handler, histVars, closer>>

\* ------------------------------------------------------- scheduling
\* Tasks that hold the event loop: they are between two awaits.
RunningHandlers == {c \in Clients : handler[c].pc \in {"gs", "call"}}
RunningTasks == {i \in Insts : task[i].pc = "iter"}
\* cleanup_stalkers between two awaits
CloserRuns == closer.pc \in {"pick", "unwatch"}
HandlerMayRun(c) == RunningTasks = {} /\ RunningHandlers \subseteq {c} /\ ~CloserRuns
TaskMayRun(i) == RunningHandlers = {} /\ RunningTasks \subseteq {i} /\ ~CloserRuns
\* A task made by create_task is ready at once: it gets the event loop when the
\* running task suspends, before any awaited I/O completes.
ReadyTasks == {i \in Insts : task[i].pc = "created"}
NothingRuns ==
    RunningHandlers = {} /\ RunningTasks = {} /\ ReadyTasks = {} /\ ~CloserRuns

\* History for the broadcast passes: another task changed the registered set
\* while the pass of adapter i was suspended in a send.
MarkMut(t) ==
    [i \in Insts |-> IF t[i].pc = "bcast" THEN [t[i] EXCEPT !.bmut = TRUE] ELSE t[i]]

\* Who is waiting in websocket.recv() of adapter i besides client c / the loop.
RecvWaiters(i) ==
    {c \in Clients : handler[c].st = i /\ handler[c].pc \in {"w_wait", "u_wait"}}
\* a loop that takes the next message while its callback is still suspended
LoopInRecvOrCallback(i) == task[i].pc \in {"recv", "bcast"}

\* the loop of adapter i is suspended in "message = await self.websocket.recv()"
LoopInRecv(i) == task[i].pc = "recv"

\* --------------------------------------------- gateway: stalker_websocket
\* await websocket.accept(); active_stalker_connections.add(websocket)
Accept(c) ==
    /\ NothingRuns
    /\ handler[c].pc = "off"
    /\ active_stalker_connections' = active_stalker_connections \cup {c}
    /\ handler' = [handler EXCEPT ![c].pc = "hello"]
    /\ task' = MarkMut(task)
    /\ UNCHANGED <<dirVars, adapterVars, pending, now, histVars, closer>>

\* await websocket.send_json({"type": "connected"}): outside the try, so a
\* failure leaves stalker_websocket without running the finally clause.
Hello(c) ==
    /\ NothingRuns
    /\ handler[c].pc = "hello"
    /\ \E ok \in BOOLEAN :
         handler' = [handler EXCEPT ![c].pc = IF ok THEN "idle" ELSE "dead"]
    /\ UNCHANGED <<active_stalker_connections, dirVars, adapterVars, task, pending,
                   now, histVars, closer>>

\* a handler that ends without the discard
DiscardedKept(conns, c) == conns

\* finally: active_stalker_connections.discard(websocket)
Discarded(conns, c) == conns \ {c}

\* receive_text() raises WebSocketDisconnect: except, finally
Disconnect(c) ==
    /\ NothingRuns
    /\ handler[c].pc = "idle"
    /\ active_stalker_connections' = Discarded(active_stalker_connections, c)
    /\ handler' = [handler EXCEPT ![c] = [IdleHandler EXCEPT !.pc = "gone"]]
    /\ task' = IF c \in active_stalker_connections THEN MarkMut(task) ELSE task
    /\ UNCHANGED <<dirVars, adapterVars, pending, now, histVars, closer>>

\* data = await websocket.receive_text(); command = json.loads(data);
\* action, wallet, chain = command.get(...); "if not wallet" sends an error.
RecvCmd(c) ==
    /\ NothingRuns
    /\ handler[c].pc = "idle"
    /\ budget > 0
    /\ budget' = budget - 1
    /\ \E a \in {"watch", "unwatch", "status"}, w \in WalletInputs \cup {None},
          ch \in scope :
         /\ a = "status" => w = None
         /\ handler' = [handler EXCEPT ![c] =
              [pc |-> IF a # "status" /\ w = None THEN "reply" ELSE "gs",
               action |-> a, wallet |-> w, chain |-> ch, st |-> NoInst,
               ret |-> IF a # "status" /\ w = None THEN "nowallet" ELSE None,
               ans |-> None,
               \* history: get_stalker had returned for ch before this command
               late |-> first_returned[ch] # NoInst,
               report |-> EmptyDict]]
    /\ UNCHANGED <<active_stalker_connections, dirVars, adapterVars, task, pending,
                   now, calls, session, scope, tracing, recv_policy, fresh_left, junk_left,
                   first_returned, closer>>

\* receive_text() returns a frame that is not JSON, or JSON that is no
\* object: json.loads(data) or command.get("action") raises inside the outer
\* try, whose "except Exception" prints and whose finally discards the
\* channel; stalker_websocket returns without sending anything.
RecvBadFrame(c) ==
    /\ NothingRuns
    /\ handler[c].pc = "idle"
    /\ budget > 0
    /\ budget' = budget - 1
    /\ active_stalker_connections' = Discarded(active_stalker_connections, c)
    /\ handler' = [handler EXCEPT ![c] = [IdleHandler EXCEPT !.pc = "gone",
                                                              !.ret = "bad_frame"]]
    /\ task' = IF c \in active_stalker_connections THEN MarkMut(task) ELSE task
    /\ UNCHANGED <<dirVars, adapterVars, pending, now, calls, session, scope, tracing,
                   recv_policy, fresh_left, junk_left, first_returned, closer>>

\* history: get_stalker returns adapter i for chain ch
Returned(ch, i) ==
    IF first_returned[ch] = NoInst THEN [first_returned EXCEPT ![ch] = i]
    ELSE first_returned

FreeInsts == {i \in Insts : chain_of[i] = None}
NewInst == CHOOSE i \in FreeInsts : \A j \in FreeInsts : i <= j

\* get_stalker(chain) up to its await of connect(), or to its return
GetStalker(c) ==
    LET h == handler[c] IN
    /\ HandlerMayRun(c)
    /\ h.pc = "gs"
    /\ IF h.chain = "solana"
       THEN IF solana_stalker = NoInst
            THEN \* _solana_stalker = SolanaWalletStalker(); await connect()
                 /\ FreeInsts # {}
                 /\ chain_of' = [chain_of EXCEPT ![NewInst] = "solana"]
                 /\ solana_stalker' = NewInst
                 /\ handler' = [handler EXCEPT ![c].pc = "gs_connect", ![c].st = NewInst]
                 /\ UNCHANGED <<stalker_instances, first_returned>>
            ELSE /\ handler' = [handler EXCEPT ![c].pc = "call", ![c].st = solana_stalker]
                 /\ first_returned' = Returned(h.chain, solana_stalker)
                 /\ UNCHANGED dirVars
       ELSE IF h.chain \notin DOMAIN stalker_instances
            THEN \* stalker = WalletStalker(chain); await stalker.connect()
                 /\ FreeInsts # {}
                 /\ chain_of' = [chain_of EXCEPT ![NewInst] = h.chain]
                 /\ handler' = [handler EXCEPT ![c].pc = "gs_connect", ![c].st = NewInst]
                 /\ UNCHANGED <<stalker_instances, solana_stalker, first_returned>>
            ELSE /\ handler' = [handler EXCEPT ![c].pc = "call",
                                               ![c].st = stalker_instances[h.chain]]
                 /\ first_returned' = Returned(h.chain, stalker_instances[h.chain])
                 /\ UNCHANGED dirVars
    /\ UNCHANGED <<active_stalker_connections, adapterVars, task, pending, now, calls,
                   session, scope, tracing, recv_policy, budget, fresh_left, junk_left, closer>>

\* connect() after its await: the transport is open, self.connected = True and
\* the _listen_loop task is created; or the handshake failed and connect raises.
\* get_stalker then stores (EVM) and returns the directory's entry.
ConnectDone(c) ==
    LET h == handler[c]
        i == h.st IN
    /\ NothingRuns
    /\ h.pc = "gs_connect"
    /\ \/ /\ websocket' = [websocket EXCEPT ![i] = "open"]
          /\ connected' = [connected EXCEPT ![i] = TRUE]
          /\ task' = [task EXCEPT ![i].pc = "created"]
          /\ IF IsEvm(i)
             THEN /\ stalker_instances' = Put(stalker_instances, h.chain, i)
                  /\ handler' = [handler EXCEPT ![c].pc = "call"]
                  /\ first_returned' = Returned(h.chain, i)
             ELSE /\ UNCHANGED stalker_instances
                  /\ handler' = [handler EXCEPT ![c].pc = "call", ![c].st = solana_stalker]
                  /\ first_returned' = Returned(h.chain, solana_stalker)
       \/ /\ connected' = [connected EXCEPT ![i] = FALSE]
          /\ handler' = [handler EXCEPT ![c].pc = "reply", ![c].ret = "raised"]
          /\ UNCHANGED <<websocket, task, stalker_instances, first_returned>>
    /\ UNCHANGED <<active_stalker_connections, solana_stalker, chain_of, watched_wallets,
                   subscription_ids, last_seen_txs, last_activity, on_activity, pending,
                   now, calls, session, scope, tracing, recv_policy, budget, fresh_left, junk_left, closer>>

\* ------------------------------------------------- adapter: watch_wallet
\* wallet_address.lower() in WalletStalker; SolanaWalletStalker keeps the text
Normalized(i, w) == IF IsEvm(i) THEN Lower(w) ELSE w

\* What the second of two coroutines waiting in websocket.recv() of one
\* connection gets: the websockets library raises RuntimeError for it, other
\* transports let both wait.  Both outcomes are admitted: a run either fixes the
\* transport's behaviour ("raise", "wait") or leaves it open at every recv
\* ("either").
ConcurrentRecvOutcomes ==
    IF recv_policy = "either" THEN {"raise", "wait"} ELSE {recv_policy}

\* The value watch_wallet returns when the wallet is already watched:
\* a bare "return" in WalletStalker, "return True" in SolanaWalletStalker.
AlreadyWatchedReturn(i) == IF IsEvm(i) THEN "None" ELSE "True"

\* A fresh watch session of wallet w (history)
NewSession == [once |-> {}, twice |-> {}, evicted |-> FALSE]
SessionPut(i, w, v) ==
    IF "session" \in tracing THEN [session EXCEPT ![i] = Put(@, w, v)] ELSE session
SessionDrop(i, w) ==
    IF "session" \in tracing THEN [session EXCEPT ![i] = Drop(@, w)] ELSE session
SessionOf(i, w) == IF w \in DOMAIN session[i] THEN session[i][w] ELSE NewSession

\* The state watch_wallet records on success
WatchRecorded(i, w, withId) ==
    /\ watched_wallets' = [watched_wallets EXCEPT ![i] = @ \cup {w}]
    /\ last_activity' = [last_activity EXCEPT ![i] = Put(@, w, now)]
    /\ subscription_ids' =
         IF withId THEN [subscription_ids EXCEPT ![i] = Put(@, w, "sub")]
         ELSE subscription_ids
    /\ session' = IF w \in watched_wallets[i] THEN session
                   ELSE SessionPut(i, w, NewSession)

\* a provider that leaves the request unanswered
SentUnanswered(i) == pending[i]

\* A request handed to the transport: the provider will answer it, with a
\* result or with an error (which of them is seen when the answer is read)
Sent(i) == pending[i] + 1

\* a connection check that looks at the transport object only
NotConnectedNoSocket(i) == websocket[i] = None

\* "if not self.connected or not self.websocket: raise RuntimeError(...)"
NotConnected(i) == ~connected[i] \/ websocket[i] = None

\* stalker.on_activity = on_wallet_activity (if not set), then watch_wallet up
\* to its first suspension (EVM: in recv) or to its return.
CallWatch(c) ==
    LET h == handler[c]
        i == h.st
        w == Normalized(i, h.wallet) IN
    /\ HandlerMayRun(c)
    /\ h.pc = "call" /\ h.action = "watch" /\ i # NoInst
    /\ on_activity' = [on_activity EXCEPT ![i] = "on_wallet_activity"]
    /\ IF NotConnected(i)
       THEN \* raise RuntimeError("WebSocket not connected")
            /\ handler' = [handler EXCEPT ![c].pc = "reply", ![c].ret = "raised"]
            /\ UNCHANGED <<watched_wallets, last_activity, subscription_ids, session,
                           pending>>
       ELSE IF w \in watched_wallets[i]
       THEN /\ handler' = [handler EXCEPT ![c].pc = "reply",
                                          ![c].ret = AlreadyWatchedReturn(i)]
            /\ UNCHANGED <<watched_wallets, last_activity, subscription_ids, session,
                           pending>>
       ELSE IF websocket[i] = "closed"
       THEN \* send raises: except Exception: return False
            /\ handler' = [handler EXCEPT ![c].pc = "reply", ![c].ret = "False",
                                          ![c].ans = "raised"]
            /\ UNCHANGED <<watched_wallets, last_activity, subscription_ids, session,
                           pending>>
       ELSE /\ pending[i] < MaxPending
            /\ pending' = [pending EXCEPT ![i] = Sent(i)]
            /\ IF IsEvm(i)
               THEN \* response = await self.websocket.recv()
                    /\ \E o \in ConcurrentRecvOutcomes :
                         handler' = [handler EXCEPT
                            ![c].pc = IF o = "raise" /\ (LoopInRecv(i) \/ RecvWaiters(i) # {})
                                      THEN "reply" ELSE "w_wait",
                            ![c].ret = IF o = "raise" /\ (LoopInRecv(i) \/ RecvWaiters(i) # {})
                                       THEN "False" ELSE None,
                            ![c].ans = IF o = "raise" /\ (LoopInRecv(i) \/ RecvWaiters(i) # {})
                                       THEN "raised" ELSE None]
                    /\ UNCHANGED <<watched_wallets, last_activity, subscription_ids,
                                   session>>
               ELSE \* logs_subscribe only sends; the wallet is recorded at once,
                    \* whatever the provider is going to answer (ans)
                    /\ WatchRecorded(i, w, FALSE)
                    /\ \E a \in {"result", "error"} :
                         handler' = [handler EXCEPT ![c].pc = "reply", ![c].ret = "True",
                                                    ![c].ans = a]
    /\ UNCHANGED <<active_stalker_connections, dirVars, connected, websocket,
                   last_seen_txs, task, now, calls, scope, tracing, recv_policy, budget, fresh_left, junk_left, first_returned, closer>>

\* WalletStalker.watch_wallet after recv(): "result" in result records the
\* wallet; any other message, or an exception, returns False.
WatchRecv(c) ==
    LET h == handler[c]
        i == h.st
        w == Normalized(i, h.wallet) IN
    /\ NothingRuns
    /\ h.pc = "w_wait"
    /\ \/ \* the response to a request is read: {"result": ...} or {"error": ...}
          /\ websocket[i] = "open" /\ pending[i] > 0
          /\ pending' = [pending EXCEPT ![i] = @ - 1]
          /\ \E ok \in BOOLEAN :
               IF ok
               THEN /\ WatchRecorded(i, w, TRUE)
                    /\ handler' = [handler EXCEPT ![c].pc = "reply", ![c].ret = "True",
                                                  ![c].ans = "result"]
               ELSE /\ handler' = [handler EXCEPT ![c].pc = "reply", ![c].ret = "False",
                                                  ![c].ans = "error"]
                    /\ UNCHANGED <<watched_wallets, last_activity, subscription_ids,
                                   session>>
       \/ \* a subscription notification is read instead: it has no "result"
          /\ websocket[i] = "open"
          /\ handler' = [handler EXCEPT ![c].pc = "reply", ![c].ret = "False"]
          /\ UNCHANGED <<watched_wallets, last_activity, subscription_ids, session, pending>>
       \/ \* recv raises ConnectionClosed
          /\ websocket[i] = "closed"
          /\ handler' = [handler EXCEPT ![c].pc = "reply", ![c].ret = "False",
                                        ![c].ans = "raised"]
          /\ UNCHANGED <<watched_wallets, last_activity, subscription_ids, session, pending>>
    /\ UNCHANGED <<active_stalker_connections, dirVars, connected, websocket,
                   last_seen_txs, on_activity, task, now, calls, scope, tracing, recv_policy, budget, fresh_left, junk_left, first_returned, closer>>

\* ----------------------------------------------- adapter: unwatch_wallet
\* a clean-up that forgets the discard
WatchedKept(ws, w) == ws

\* "Clean up state": discard, pop, pop.  last_activity is not touched.
WatchedAfterUnwatch(ws, w) == ws \ {w}

Cleanup(i, w) ==
    /\ watched_wallets' = [watched_wallets EXCEPT ![i] = WatchedAfterUnwatch(@, w)]
    /\ subscription_ids' = [subscription_ids EXCEPT ![i] = Drop(@, w)]
    /\ last_seen_txs' = [last_seen_txs EXCEPT ![i] = Drop(@, w)]
    /\ session' = SessionDrop(i, w)

\* unwatch_wallet up to its suspension in recv (EVM) or to its return
CallUnwatch(c) ==
    LET h == handler[c]
        i == h.st
        w == Normalized(i, h.wallet) IN
    /\ HandlerMayRun(c)
    /\ h.pc = "call" /\ h.action = "unwatch" /\ i # NoInst
    /\ IF w \notin watched_wallets[i]
       THEN /\ handler' = [handler EXCEPT ![c].pc = "reply", ![c].ret = "absent"]
            /\ UNCHANGED <<watched_wallets, subscription_ids, last_seen_txs, session,
                           pending>>
       ELSE IF IsEvm(i) /\ w \in DOMAIN subscription_ids[i] /\ websocket[i] = "open"
       THEN /\ pending[i] < MaxPending
            /\ pending' = [pending EXCEPT ![i] = Sent(i)]
            /\ \E o \in ConcurrentRecvOutcomes :
                 IF o = "raise" /\ (LoopInRecv(i) \/ RecvWaiters(i) # {})
                 THEN /\ Cleanup(i, w)
                      /\ handler' = [handler EXCEPT ![c].pc = "reply",
                                                    ![c].ret = "unsub_raised"]
                 ELSE /\ handler' = [handler EXCEPT ![c].pc = "u_wait"]
                      /\ UNCHANGED <<watched_wallets, subscription_ids, last_seen_txs,
                                     session>>
       ELSE \* Solana, or the send raised (except: print) or was skipped
            /\ Cleanup(i, w)
            /\ handler' = [handler EXCEPT ![c].pc = "reply",
                 ![c].ret = IF IsEvm(i) /\ websocket[i] = "closed"
                            THEN "unsub_raised" ELSE "stopped"]
            /\ UNCHANGED pending
    /\ UNCHANGED <<active_stalker_connections, dirVars, connected, websocket,
                   last_activity, on_activity, task, now, calls, scope, tracing, recv_policy, budget, fresh_left, junk_left, first_returned, closer>>

\* WalletStalker.unwatch_wallet after "await self.websocket.recv()  # Confirmation"
UnwatchRecv(c) ==
    LET h == handler[c]
        i == h.st
        w == Normalized(i, h.wallet) IN
    /\ NothingRuns
    /\ h.pc = "u_wait"
    /\ \/ /\ websocket[i] = "open" /\ pending[i] > 0
          /\ pending' = [pending EXCEPT ![i] = @ - 1]
          /\ \E ok \in BOOLEAN :
               handler' = [handler EXCEPT ![c].pc = "reply",
                 ![c].ret = IF ok THEN "stopped" ELSE "unsub_rejected"]
       \/ /\ websocket[i] = "open"
          /\ handler' = [handler EXCEPT ![c].pc = "reply", ![c].ret = "stopped"]
          /\ UNCHANGED pending
       \/ /\ websocket[i] = "closed"
          /\ handler' = [handler EXCEPT ![c].pc = "reply", ![c].ret = "unsub_raised"]
          /\ UNCHANGED pending
    /\ Cleanup(i, w)
    /\ UNCHANGED <<active_stalker_connections, dirVars, connected, websocket,
                   last_activity, on_activity, task, now, calls, scope, tracing, recv_policy, budget, fresh_left, junk_left, first_returned, closer>>

\* a state that also counts the thirtieth second as active
StateOfInclusive(time_diff) ==
    IF time_diff <= ActiveWindow * TicksPerSecond THEN "active" ELSE "idle"

\* "if time_diff < 30: state = 'active' ... else: state = 'idle'", time_diff
\* being (now - last_activity).total_seconds() counted in ticks
StateOf(time_diff) ==
    IF time_diff < ActiveWindow * TicksPerSecond THEN "active" ELSE "idle"

\* f"{int(time_diff)}s ago", f"{int(time_diff / 60)}m ago",
\* f"{int(time_diff / 3600)}h ago": the number and its unit
TimeAgo(time_diff) ==
    IF time_diff < ActiveWindow * TicksPerSecond
    THEN <<time_diff \div TicksPerSecond, "s">>
    ELSE IF time_diff < HourSeconds * TicksPerSecond
    THEN <<time_diff \div (MinuteSeconds * TicksPerSecond), "m">>
    ELSE <<time_diff \div (HourSeconds * TicksPerSecond), "h">>

\* get_watched_wallets_status: the entry of one watched wallet
WalletStatus(i, w) ==
    IF w \in DOMAIN last_activity[i]
    THEN [state |-> StateOf(now - last_activity[i][w]),
          last_activity |-> TimeAgo(now - last_activity[i][w]),
          tx_count |-> SeenLen(SeenOf(i, w))]
    ELSE [state |-> "idle", last_activity |-> <<0, "Never">>,
          tx_count |-> SeenLen(SeenOf(i, w))]

\* get_watched_wallets_status()
StatusOf(i) == [w \in watched_wallets[i] |-> WalletStatus(i, w)]

\* status = stalker.get_watched_wallets_status()
CallStatus(c) ==
    LET h == handler[c] IN
    /\ HandlerMayRun(c)
    /\ h.pc = "call" /\ h.action = "status" /\ h.st # NoInst
    /\ handler' = [handler EXCEPT ![c].pc = "reply", ![c].ret = "status",
                                  ![c].report = StatusOf(h.st)]
    /\ UNCHANGED <<active_stalker_connections, dirVars, adapterVars, task, pending,
                   now, histVars, closer>>

\* The frame stalker_websocket sends for the outcome of a command
Truthy(v) == v = "True"

\* frames chosen without the except branches of the commands
FrameHidesFailure(h) ==
    IF h.ret = "nowallet" THEN "error"
    ELSE IF h.action = "watch"
         THEN (IF Truthy(h.ret) THEN "watch_started" ELSE "error")
    ELSE IF h.action = "unwatch" THEN "watch_stopped"
    ELSE "status_update"

Frame(h) ==
    IF h.ret \in {"raised", "nowallet"} THEN "error"
    ELSE IF h.action = "watch"
         THEN (IF Truthy(h.ret) THEN "watch_started" ELSE "error")
    ELSE IF h.action = "unwatch" THEN "watch_stopped"
    ELSE "status_update"

\* await websocket.send_json(...): back to receive_text, or the send raises and
\* the outer except / finally end the handler.
Reply(c) ==
    /\ NothingRuns
    /\ handler[c].pc = "reply"
    /\ \/ /\ handler' = [handler EXCEPT ![c] = [IdleHandler EXCEPT !.pc = "idle"]]
          /\ UNCHANGED <<active_stalker_connections, task>>
       \/ /\ handler' = [handler EXCEPT ![c] = [IdleHandler EXCEPT !.pc = "gone"]]
          /\ active_stalker_connections' = Discarded(active_stalker_connections, c)
          /\ task' = IF c \in active_stalker_connections THEN MarkMut(task) ELSE task
    /\ UNCHANGED <<dirVars, adapterVars, pending, now, histVars, closer>>

\* The provider or the network closes the transport of adapter i
TransportDrop(i) ==
    /\ NothingRuns
    /\ websocket[i] = "open"
    /\ websocket' = [websocket EXCEPT ![i] = "closed"]
    /\ UNCHANGED <<active_stalker_connections, dirVars, connected, watched_wallets,
                   subscription_ids, last_seen_txs, last_activity, on_activity, task,
                   pending, handler, now, histVars, closer>>

\* --------------------------------------------------- the receive loop
\* Inbound notifications the provider may deliver: the address and topics
\* fields of an eth_subscription result (a topic is written as the address it
\* carries); Solana's logsNotification has neither.
MsgAddrs == {None, "0xAA"}
MsgTopics == {{}, {"0xbb"}}

\* a comparison that does not fold the letter case
MatchExact(i, w, t) ==
    IF IsEvm(i)
    THEN \/ (t.addr # None /\ w = t.addr)
         \/ \E topic \in t.topics : w = topic
    ELSE TRUE

\* a comparison that looks at the address field only
MatchAddressOnly(i, w, t) ==
    IF IsEvm(i)
    THEN t.addr # None /\ Lower(w) = Lower(t.addr)
    ELSE TRUE

\* WalletStalker._process_message: found_match for one watched wallet;
\* SolanaWalletStalker._process_message: every watched wallet is alerted.
Match(i, w, t) ==
    IF IsEvm(i)
    THEN \/ (t.addr # None /\ Lower(w) = Lower(t.addr))
         \/ \E topic \in t.topics : Lower(w) = Lower(topic)
    ELSE TRUE

\* The iteration and broadcast locals are dead outside a message
Cleared(t) == [IdleTask EXCEPT !.pc = t.pc]

\* "while self.connected and self.websocket: ... await self.websocket.recv()"
\* entered by the task whose record is t: the loop ends, or waits in recv, or
\* (a watch/unwatch call is already waiting in recv) gets the RuntimeError that
\* "except Exception" turns into self.connected = False.
LoopTop(i, t) ==
    IF ~connected[i] \/ websocket[i] = None
    THEN /\ task' = [task EXCEPT ![i] = [Cleared(t) EXCEPT !.pc = "done"]]
         /\ UNCHANGED connected
    ELSE \E o \in ConcurrentRecvOutcomes :
           IF o = "raise" /\ RecvWaiters(i) # {}
           THEN /\ task' = [task EXCEPT ![i] = [Cleared(t) EXCEPT !.pc = "done"]]
                /\ connected' = [connected EXCEPT ![i] = FALSE]
           ELSE /\ task' = [task EXCEPT ![i] = [Cleared(t) EXCEPT !.pc = "recv"]]
                /\ UNCHANGED connected

\* the task created by connect() gets the event loop for the first time
LoopStart(i) ==
    /\ RunningHandlers = {} /\ RunningTasks = {} /\ ~CloserRuns
    /\ task[i].pc = "created"
    /\ LoopTop(i, task[i])
    /\ UNCHANGED <<active_stalker_connections, dirVars, websocket, watched_wallets,
                   subscription_ids, last_seen_txs, last_activity, on_activity,
                   pending, handler, now, histVars, closer>>

\* recv() returns the response to a request: it has no "method" key (EVM) /
\* is no logsNotification (Solana), and is dropped
LoopRecvAck(i) ==
    /\ NothingRuns
    /\ LoopInRecv(i)
    /\ websocket[i] = "open" /\ pending[i] > 0
    /\ pending' = [pending EXCEPT ![i] = @ - 1]
    /\ LoopTop(i, task[i])
    /\ UNCHANGED <<active_stalker_connections, dirVars, websocket, watched_wallets,
                   subscription_ids, last_seen_txs, last_activity, on_activity,
                   handler, now, histVars, closer>>

\* recv() returns a subscription notification whose identifier is in txs
LoopRecvNotif(i, txs) ==
    /\ NothingRuns
    /\ LoopInRecv(i)
    /\ websocket[i] = "open"
    /\ \E tx \in txs, a \in MsgAddrs, tp \in MsgTopics :
         /\ IsSolana(i) => (a = None /\ tp = {})
         /\ IF tx = NoTx
            THEN LoopTop(i, task[i])
            ELSE /\ task' = [task EXCEPT ![i] =
                      [Cleared(@) EXCEPT !.pc = "iter", !.tx = tx, !.addr = a,
                                         !.topics = tp, !.start = watched_wallets[i]]]
                 /\ UNCHANGED connected
    /\ UNCHANGED <<active_stalker_connections, dirVars, websocket, watched_wallets,
                   subscription_ids, last_seen_txs, last_activity, on_activity,
                   pending, handler, now, histVars, closer>>

LoopRecv(i) == LoopRecvNotif(i, Txs \cup {NoTx})

\* a parse error that leaves _process_message: "except Exception" of
\* _listen_loop ends the loop
IgnoredEscaping(i, t) ==
    /\ task' = [task EXCEPT ![i] = [Cleared(t) EXCEPT !.pc = "done"]]
    /\ connected' = [connected EXCEPT ![i] = FALSE]

\* _process_message on a message that is no notification: json.loads raises
\* and "except json.JSONDecodeError: pass" returns, or the text parses to
\* something without the notification method and nothing is done, or an
\* attribute or type error is caught by "except Exception"; the loop then
\* evaluates its condition and calls recv() again.
Ignored(i, t) == LoopTop(i, t)

\* recv() returns a message that is not a subscription notification:
\* unparseable text, a JSON value that is no object, another method
LoopRecvOther(i) ==
    /\ NothingRuns
    /\ LoopInRecv(i)
    /\ websocket[i] = "open"
    /\ junk_left > 0
    /\ junk_left' = junk_left - 1
    /\ Ignored(i, task[i])
    /\ UNCHANGED <<active_stalker_connections, dirVars, websocket, watched_wallets,
                   subscription_ids, last_seen_txs, last_activity, on_activity,
                   pending, handler, now, calls, session, scope, tracing,
                   recv_policy, budget, fresh_left, first_returned, closer>>

\* recv() raises because the transport is closed.
\* WalletStalker: except ConnectionClosed: self.connected = False.
\* SolanaWalletStalker: inner except Exception: await asyncio.sleep(1).
LoopRecvClosed(i) ==
    /\ NothingRuns
    /\ LoopInRecv(i)
    /\ websocket[i] = "closed"
    /\ IF IsEvm(i)
       THEN /\ connected' = [connected EXCEPT ![i] = FALSE]
            /\ task' = [task EXCEPT ![i] = [Cleared(@) EXCEPT !.pc = "done"]]
       ELSE /\ task' = [task EXCEPT ![i] = [Cleared(@) EXCEPT !.pc = "sleep"]]
            /\ UNCHANGED connected
    /\ UNCHANGED <<active_stalker_connections, dirVars, websocket, watched_wallets,
                   subscription_ids, last_seen_txs, last_activity, on_activity,
                   pending, handler, now, histVars, closer>>

\* asyncio.sleep(1) is over: back to the while condition
LoopWake(i) ==
    /\ NothingRuns
    /\ task[i].pc = "sleep"
    /\ LoopTop(i, task[i])
    /\ UNCHANGED <<active_stalker_connections, dirVars, websocket, watched_wallets,
                   subscription_ids, last_seen_txs, last_activity, on_activity,
                   pending, handler, now, histVars, closer>>

\* ------------------------------------------ _handle_wallet_activity
\* an add that evicts nothing
SeenAfterAddKeepsAll(e, tx) == {SeenAdd(e, tx)}

\* The recent-event set after "add(tx); if len > 100: pop()": every result
\* set.pop() can leave.
SeenAfterAdd(e, tx) ==
    LET e1 == SeenAdd(e, tx) IN
    IF SeenLen(e1) > SeenCap THEN SeenPopResults(e1) ELSE {e1}

\* a debounce that finds no identifier
DebouncedNever(e, tx) == FALSE

\* "if tx_hash in self.last_seen_txs[wallet]: return"
Debounced(e, tx) == SeenHas(e, tx)

\* history: the last two calls of _handle_wallet_activity
Recorded(cs, call) ==
    IF "calls" \notin tracing THEN cs
    ELSE IF Len(cs) < 2 THEN Append(cs, call) ELSE <<cs[2], call>>

\* One call of _handle_wallet_activity(w, tx) by the loop of adapter i, up to
\* its return or to the first send of the callback's broadcast.
Handle(i, w, tx) ==
    LET e == SeenOf(i, w)
        t == task[i]
        fired == ~Debounced(e, tx) /\ on_activity[i] # None
        ss == SessionOf(i, w) IN
    /\ calls' = Recorded(calls, [inst |-> i, wallet |-> w, tx |-> tx, fired |-> fired])
    /\ IF Debounced(e, tx)
       THEN /\ last_seen_txs' = [last_seen_txs EXCEPT ![i] = Put(@, w, e)]
            /\ task' = [task EXCEPT ![i].seen = @ \cup {w}]
            /\ UNCHANGED <<last_activity, session, scope, tracing, recv_policy, budget, fresh_left, junk_left, first_returned, closer>>
       ELSE /\ \E e2 \in SeenAfterAdd(e, tx) :
                 /\ last_seen_txs' = [last_seen_txs EXCEPT ![i] = Put(@, w, e2)]
                 /\ session' = SessionPut(i, w,
                      [once |-> IF fired THEN ss.once \cup ({tx} \cap Txs) ELSE ss.once,
                       twice |-> IF fired THEN ss.twice \cup ({tx} \cap ss.once)
                                 ELSE ss.twice,
                       evicted |-> ss.evicted \/ SeenLen(SeenAdd(e, tx)) > SeenCap])
            /\ last_activity' = [last_activity EXCEPT ![i] = Put(@, w, now)]
            /\ UNCHANGED <<scope, tracing, recv_policy, budget, fresh_left, junk_left, first_returned, closer>>
            /\ IF on_activity[i] = None
               THEN task' = [task EXCEPT ![i].seen = @ \cup {w}]
               ELSE IF active_stalker_connections = {}
               THEN \* on_wallet_activity: the for loop has nothing to visit
                    task' = [task EXCEPT ![i].seen = @ \cup {w},
                                         ![i].bstart = {}, ![i].bseen = {},
                                         ![i].bcur = None, ![i].bfailed = {},
                                         ![i].bres = "returned", ![i].bmut = FALSE]
               ELSE \E x \in active_stalker_connections :
                    task' = [task EXCEPT ![i].seen = t.seen \cup {w},
                                         ![i].pc = "bcast",
                                         ![i].bstart = active_stalker_connections,
                                         ![i].bseen = {x}, ![i].bcur = x,
                                         ![i].bfailed = {}, ![i].bres = "none",
                                         ![i].bmut = FALSE]

\* an iteration over a copy taken when the loop began
NextOfIterationSnapshot(S, start, seen) ==
    (start \ seen) \cup (IF start \ seen = {} THEN {"End"} ELSE {})

\* an iteration that may visit a member again
NextOfIterationRevisiting(S, start, seen) ==
    IF Cardinality(S) # Cardinality(start) THEN {"RuntimeError"}
    ELSE S \cup {"End"}

\* What a "for x in <set>" visits next when the set is S now, was start when
\* the loop began and seen has been visited: RuntimeError when the size
\* changed; otherwise a member not yet visited, the end ("End") only when all
\* remaining members of the original set have been visited.
NextOfIteration(S, start, seen) ==
    IF Cardinality(S) # Cardinality(start) THEN {"RuntimeError"}
    ELSE (S \ seen) \cup (IF (S \cap start) \ seen = {} THEN {"End"} ELSE {})

\* "for wallet in self.watched_wallets:" one step
LoopIter(i) ==
    LET t == task[i] IN
    /\ TaskMayRun(i)
    /\ t.pc = "iter"
    /\ \E x \in NextOfIteration(watched_wallets[i], t.start, t.seen) :
         IF x \in {"RuntimeError", "End"}
         THEN \* except Exception in _process_message, or the loop is over
              /\ LoopTop(i, t)
              /\ UNCHANGED <<last_seen_txs, last_activity, histVars, closer>>
         ELSE IF Match(i, x, t)
         THEN Handle(i, x, t.tx) /\ UNCHANGED connected
         ELSE /\ task' = [task EXCEPT ![i].seen = @ \cup {x}]
              /\ UNCHANGED <<last_seen_txs, last_activity, histVars, closer, connected>>
    /\ UNCHANGED <<active_stalker_connections, dirVars, websocket, watched_wallets,
                   subscription_ids, on_activity, pending, handler, now>>

\* ------------------------------------- gateway: on_wallet_activity
\* a pass that forgets the prune
PrunedNothing(conns, failed) == conns

\* active_stalker_connections.difference_update(disconnected)
Pruned(conns, failed) == conns \ failed

\* May the send to client x succeed: not when its handler has ended
SendOutcomes(x) == IF handler[x].pc \in {"gone", "dead"} THEN {FALSE} ELSE BOOLEAN

\* a callback error that leaves _handle_wallet_activity and ends the loop
CallbackEscaped(t) == [t EXCEPT !.pc = "done", !.bres = "raised"]

\* "try: await self.on_activity(activity_event) except Exception: print(...)":
\* the loop's task after the callback raised; the call returns to the
\* iteration over the watched wallets
CallbackRaised(t) == [t EXCEPT !.pc = "iter", !.bres = "raised"]

\* "await connection.send_text(message)" returns or raises for bcur, then the
\* for loop moves on: next channel, RuntimeError (to the caller, which catches
\* it), or the end of the pass with the prune.
BcastStep(i) ==
    LET t == task[i] IN
    /\ NothingRuns
    /\ t.pc = "bcast"
    /\ \E ok \in SendOutcomes(t.bcur) :
       LET failed == IF ok THEN t.bfailed ELSE t.bfailed \cup {t.bcur} IN
       \E x \in NextOfIteration(active_stalker_connections, t.bstart, t.bseen) :
         IF x = "RuntimeError"
         THEN /\ task' = [task EXCEPT ![i] = CallbackRaised([t EXCEPT !.bfailed = failed])]
              /\ UNCHANGED active_stalker_connections
         ELSE IF x = "End"
         THEN /\ active_stalker_connections' = Pruned(active_stalker_connections, failed)
              /\ task' = [IF Pruned(active_stalker_connections, failed)
                              = active_stalker_connections
                          THEN task ELSE MarkMut(task)
                          EXCEPT ![i].pc = "iter", ![i].bfailed = failed,
                                 ![i].bres = "returned", ![i].bmut = t.bmut]
         ELSE /\ task' = [task EXCEPT ![i].bfailed = failed, ![i].bcur = x,
                                      ![i].bseen = @ \cup {x}]
              /\ UNCHANGED active_stalker_connections
    /\ UNCHANGED <<dirVars, adapterVars, pending, handler, now, histVars, closer>>

\* recv() returns a notification whose identifier never arrived before and
\* never arrives again; its address and topics name every wallet of the model
LoopRecvFresh(i) ==
    /\ NothingRuns
    /\ LoopInRecv(i)
    /\ websocket[i] = "open"
    /\ fresh_left > 0
    /\ fresh_left' = fresh_left - 1
    /\ task' = [task EXCEPT ![i] =
         [Cleared(@) EXCEPT !.pc = "iter", !.tx = Fresh,
                            !.addr = IF IsEvm(i) THEN "0xAA" ELSE None,
                            !.topics = IF IsEvm(i) THEN {"0xbb"} ELSE {},
                            !.start = watched_wallets[i]]]
    /\ UNCHANGED <<active_stalker_connections, dirVars, connected, websocket,
                   watched_wallets, subscription_ids, last_seen_txs, last_activity,
                   on_activity, pending, handler, now, calls, session, scope, tracing, recv_policy,
                   budget, junk_left, first_returned, closer>>

\* ------------------------------------------ shutdown: cleanup_stalkers
\* No stalker_websocket handler is alive: the server has closed its
\* connections before it runs the shutdown event
NoClientServed == \A c \in Clients : handler[c].pc \in {"off", "gone", "dead"}

\* disconnect() of adapter i up to its loop over the wallets:
\* "self.connected = False" and the copy "list(self.watched_wallets)";
\* cl is the record of cleanup_stalkers at the call
DisconnectEnter(cl, i) ==
    /\ connected' = [connected EXCEPT ![i] = FALSE]
    /\ closer' = [cl EXCEPT !.pc = "unwatch", !.st = i,
                            !.todo = watched_wallets[i], !.cur = None]

\* cleanup_stalkers at the head of "for stalker in _stalker_instances.values()":
\* the next value is disconnected; a dict that changed size raises
\* RuntimeError out of cleanup_stalkers; at the end of the loop
\* "_stalker_instances.clear()" runs and "if _solana_stalker:" leads to the
\* disconnect of the Solana adapter or to the return.
CleanupLoop(cl) ==
    \E x \in NextOfIteration(DOMAIN stalker_instances, cl.chains, cl.visited) :
      IF x = "RuntimeError"
      THEN /\ closer' = [cl EXCEPT !.pc = "raised", !.st = NoInst]
           /\ UNCHANGED <<stalker_instances, solana_stalker, connected>>
      ELSE IF x = "End"
      THEN /\ stalker_instances' = EmptyDict
           /\ UNCHANGED solana_stalker
           /\ IF solana_stalker # NoInst
              THEN DisconnectEnter(cl, solana_stalker)
              ELSE /\ closer' = [cl EXCEPT !.pc = "finished", !.st = NoInst]
                   /\ UNCHANGED connected
      ELSE /\ DisconnectEnter([cl EXCEPT !.visited = @ \cup {x}], stalker_instances[x])
           /\ UNCHANGED <<stalker_instances, solana_stalker>>

\* cleanup_stalkers() is called: up to its first await or to its return
CleanupStart ==
    /\ NothingRuns
    /\ closer.pc = "off"
    /\ CleanupLoop([closer EXCEPT !.chains = DOMAIN stalker_instances, !.visited = {}])
    /\ UNCHANGED <<active_stalker_connections, chain_of, websocket, watched_wallets,
                   subscription_ids, last_seen_txs, last_activity, on_activity, task,
                   pending, handler, now, calls, session, scope, tracing, recv_policy, budget,
                   fresh_left, junk_left, first_returned>>

\* shutdown_event: await cleanup_stalkers(), run by the server after its
\* client connections have ended
Shutdown == NoClientServed /\ CleanupStart

\* "for wallet in list(self.watched_wallets): await self.unwatch_wallet(wallet)":
\* one call of unwatch_wallet, up to its suspension in recv or to its return
DisconnectUnwatch ==
    LET i == closer.st IN
    /\ closer.pc = "unwatch" /\ closer.todo # {}
    /\ \E w \in closer.todo :
         IF w \notin watched_wallets[i]
         THEN /\ closer' = [closer EXCEPT !.todo = @ \ {w}]
              /\ UNCHANGED <<watched_wallets, subscription_ids, last_seen_txs, session,
                             pending>>
         ELSE IF IsEvm(i) /\ w \in DOMAIN subscription_ids[i] /\ websocket[i] = "open"
         THEN /\ pending[i] < MaxPending
              /\ pending' = [pending EXCEPT ![i] = Sent(i)]
              /\ \E o \in ConcurrentRecvOutcomes :
                   IF o = "raise" /\ (LoopInRecv(i) \/ RecvWaiters(i) # {})
                   THEN /\ Cleanup(i, w)
                        /\ closer' = [closer EXCEPT !.todo = @ \ {w},
                                                    !.raised = @ \cup {w}]
                   ELSE /\ closer' = [closer EXCEPT !.pc = "d_wait", !.cur = w]
                        /\ UNCHANGED <<watched_wallets, subscription_ids,
                                       last_seen_txs, session>>
         ELSE \* Solana, or the send raised (except: print) or was skipped
              /\ Cleanup(i, w)
              /\ closer' = [closer EXCEPT !.todo = @ \ {w},
                   !.raised = IF IsEvm(i) /\ websocket[i] = "closed" 
                                 /\ w \in DOMAIN subscription_ids[i]
                              THEN @ \cup {w} ELSE @]
              /\ UNCHANGED pending
    /\ UNCHANGED <<active_stalker_connections, dirVars, connected, websocket,
                   last_activity, on_activity, task, handler, now, calls, scope,
                   tracing, recv_policy, budget, fresh_left, junk_left, first_returned>>

\* unwatch_wallet called by disconnect(), after "await self.websocket.recv()"
DisconnectUnwatchRecv ==
    LET i == closer.st
        w == closer.cur IN
    /\ NothingRuns
    /\ closer.pc = "d_wait"
    /\ \/ /\ websocket[i] = "open" /\ pending[i] > 0
          /\ pending' = [pending EXCEPT ![i] = @ - 1]
          /\ closer' = [closer EXCEPT !.pc = "unwatch", !.todo = @ \ {w}, !.cur = None]
       \/ /\ websocket[i] = "open"
          /\ closer' = [closer EXCEPT !.pc = "unwatch", !.todo = @ \ {w}, !.cur = None]
          /\ UNCHANGED pending
       \/ /\ websocket[i] = "closed"
          /\ closer' = [closer EXCEPT !.pc = "unwatch", !.todo = @ \ {w}, !.cur = None,
                                      !.raised = @ \cup {w}]
          /\ UNCHANGED pending
    /\ Cleanup(i, w)
    /\ UNCHANGED <<active_stalker_connections, dirVars, connected, websocket,
                   last_activity, on_activity, task, handler, now, calls, scope,
                   tracing, recv_policy, budget, fresh_left, junk_left, first_returned>>

\* a close that leaves the transport as it was
AfterCloseKept(v) == v

\* "await self.websocket.close()" / "await self.websocket.__aexit__(...)"
AfterClose(v) == "closed"

\* task.cancel() on the receive loop: CancelledError is raised at its await
\* (or it never starts); both loops only print and end
Cancelled(t) ==
    IF t.pc \in {"none", "done"} THEN t ELSE [Cleared(t) EXCEPT !.pc = "cancelled"]

\* disconnect() of adapter i returns to cleanup_stalkers: after the Solana
\* adapter "_solana_stalker = None" and the return, after an EVM adapter the
\* head of the for loop
DisconnectReturn(i) ==
    IF IsSolana(i)
    THEN /\ closer' = [closer EXCEPT !.pc = "finished", !.st = NoInst,
                                     !.closed = @ \cup {i}]
         /\ solana_stalker' = NoInst
         /\ UNCHANGED stalker_instances
    ELSE /\ closer' = [closer EXCEPT !.pc = "pick", !.st = NoInst,
                                     !.closed = @ \cup {i}]
         /\ UNCHANGED <<stalker_instances, solana_stalker>>

\* disconnect() after its loop over the wallets, up to its next await or to
\* its return.
\* WalletStalker: "if self.websocket: await self.websocket.close()", then
\* "if self.connection_task: self.connection_task.cancel()".
\* SolanaWalletStalker: "self.listen_task.cancel(); await self.listen_task",
\* then "if self.websocket: await self.websocket.__aexit__(...)".
DisconnectLeave ==
    LET i == closer.st IN
    /\ closer.pc = "unwatch" /\ closer.todo = {}
    /\ IF IsEvm(i) /\ websocket[i] # None
       THEN /\ closer' = [closer EXCEPT !.pc = "close"]
            /\ UNCHANGED <<task, stalker_instances, solana_stalker>>
       ELSE IF IsEvm(i)
       THEN /\ task' = [task EXCEPT ![i] = Cancelled(@)]
            /\ DisconnectReturn(i)
       ELSE IF task[i].pc # "none"
       THEN /\ task' = [task EXCEPT ![i] = Cancelled(@)]
            /\ closer' = [closer EXCEPT !.pc = "join"]
            /\ UNCHANGED <<stalker_instances, solana_stalker>>
       ELSE IF websocket[i] # None
       THEN /\ closer' = [closer EXCEPT !.pc = "aexit"]
            /\ UNCHANGED <<task, stalker_instances, solana_stalker>>
       ELSE /\ DisconnectReturn(i)
            /\ UNCHANGED task
    /\ UNCHANGED <<active_stalker_connections, chain_of, adapterVars, pending, handler,
                   now, calls, session, scope, tracing, recv_policy, budget, fresh_left, junk_left,
                   first_returned>>

\* cleanup_stalkers goes on after the disconnect() of an EVM adapter
DisconnectNext ==
    /\ closer.pc = "pick"
    /\ CleanupLoop(closer)
    /\ UNCHANGED <<active_stalker_connections, chain_of, websocket, watched_wallets,
                   subscription_ids, last_seen_txs, last_activity, on_activity, task,
                   pending, handler, now, calls, session, scope, tracing, recv_policy, budget,
                   fresh_left, junk_left, first_returned>>

\* WalletStalker.disconnect: close() is over; the loop is cancelled and
\* disconnect returns.
\* SolanaWalletStalker.disconnect: __aexit__ is over (an exception it raises
\* is printed) and disconnect returns.
DisconnectClosed ==
    LET i == closer.st IN
    /\ NothingRuns
    /\ closer.pc \in {"close", "aexit"}
    /\ websocket' = [websocket EXCEPT ![i] = AfterClose(@)]
    /\ task' = [task EXCEPT ![i] = IF IsEvm(i) THEN Cancelled(@) ELSE @]
    /\ DisconnectReturn(i)
    /\ UNCHANGED <<active_stalker_connections, chain_of, connected, watched_wallets,
                   subscription_ids, last_seen_txs, last_activity, on_activity,
                   pending, handler, now, calls, session, scope, tracing, recv_policy, budget,
                   fresh_left, junk_left, first_returned>>

\* SolanaWalletStalker.disconnect: "await self.listen_task" is over, the
\* cancelled loop having ended
DisconnectJoined ==
    LET i == closer.st IN
    /\ NothingRuns
    /\ closer.pc = "join"
    /\ task[i].pc \in {"done", "cancelled"}
    /\ IF websocket[i] # None
       THEN /\ closer' = [closer EXCEPT !.pc = "aexit"]
            /\ UNCHANGED <<stalker_instances, solana_stalker>>
       ELSE DisconnectReturn(i)
    /\ UNCHANGED <<active_stalker_connections, chain_of, adapterVars, task, pending,
                   handler, now, calls, session, scope, tracing, recv_policy, budget, fresh_left, junk_left,
                   first_returned>>

ShutdownStep ==
    \/ Shutdown \/ DisconnectUnwatch \/ DisconnectUnwatchRecv \/ DisconnectLeave
    \/ DisconnectNext \/ DisconnectClosed \/ DisconnectJoined

\* The gateway's client handlers: handshake and commands
LifecycleStep == \E c \in Clients : Accept(c) \/ Hello(c)

CommandStep ==
    \E c \in Clients :
      \/ Disconnect(c) \/ RecvCmd(c) \/ GetStalker(c)
      \/ ConnectDone(c) \/ CallWatch(c) \/ WatchRecv(c) \/ CallUnwatch(c)
      \/ UnwatchRecv(c) \/ CallStatus(c) \/ Reply(c)

\* The transport and the receive loop without inbound notifications
LinkStep ==
    \E i \in Insts :
      \/ TransportDrop(i) \/ LoopStart(i) \/ LoopRecvAck(i) \/ LoopRecvClosed(i)
      \/ LoopWake(i)

\* Inbound notifications, their correlation, debounce and broadcast
EventStep == \E i \in Insts : LoopRecv(i) \/ LoopIter(i) \/ BcastStep(i)

\* The whole subsystem from its construction
Next == LifecycleStep \/ CommandStep \/ LinkStep \/ EventStep \/ Tick
Spec == Init /\ [][Next]_vars

\* The command path: two greeted clients, the directory, the adapters and
\* their transports, without inbound notifications
NextControl == CommandStep \/ LinkStep
SpecControl == InitControl /\ [][NextControl]_vars

\* An adapter of chain ch that get_stalker returned, on which the wallets ws
\* have been watched through the gateway and have each seen n identifiers that
\* never return; its receive loop waits in recv.
Watching(ch, ws, n) ==
    /\ stalker_instances = IF ch \in EvmChains THEN Put(EmptyDict, ch, 1) ELSE EmptyDict
    /\ solana_stalker = IF ch = "solana" THEN 1 ELSE NoInst
    /\ chain_of = [i \in Insts |-> IF i = 1 THEN ch ELSE None]
    /\ connected = [i \in Insts |-> i = 1]
    /\ websocket = [i \in Insts |-> IF i = 1 THEN "open" ELSE None]
    /\ watched_wallets = [i \in Insts |-> IF i = 1 THEN ws ELSE {}]
    /\ subscription_ids =
         [i \in Insts |-> IF i = 1 /\ ch \in EvmChains THEN [w \in ws |-> "sub"]
                          ELSE EmptyDict]
    /\ last_seen_txs =
         [i \in Insts |-> IF i = 1 /\ n > 0 THEN [w \in ws |-> [ids |-> {}, anon |-> n]]
                          ELSE EmptyDict]
    /\ last_activity = [i \in Insts |-> IF i = 1 THEN [w \in ws |-> 0] ELSE EmptyDict]
    /\ on_activity = [i \in Insts |-> IF i = 1 THEN "on_wallet_activity" ELSE None]
    /\ task = [i \in Insts |-> IF i = 1 THEN [IdleTask EXCEPT !.pc = "recv"] ELSE IdleTask]
    /\ pending = [i \in Insts |-> 0]
    /\ now = 0
    /\ calls = << >>
    /\ session = [i \in Insts |-> IF i = 1 THEN [w \in ws |-> NewSession] ELSE EmptyDict]
    /\ scope = {ch}
    /\ first_returned = [x \in Chains |-> IF x = ch THEN 1 ELSE NoInst]
    /\ closer = IdleCloser

\* Debounce: an adapter of either variant watching one or two wallets whose
\* recent-event sets are empty or one short of the cap, no client, any stream
\* of notifications
InitDedup ==
    /\ \E ch \in Chains, ws \in {{"0xaa"}, {"0xaa", "0xbb"}}, n \in {0, SeenCap - 1} :
         Watching(ch, ws, n)
    /\ active_stalker_connections = {}
    /\ handler = [c \in Clients |-> IdleHandler]
    /\ tracing = {"calls"}
    /\ recv_policy = "either"
    /\ budget = 0
    /\ fresh_left = MaxFresh
    /\ junk_left = 0
NextDedup == \E i \in Insts : LoopRecv(i) \/ LoopRecvFresh(i) \/ LoopIter(i)
SpecDedup == InitDedup /\ [][NextDedup]_vars

\* Watch sessions: the same adapter watching one wallet, and one greeted
\* client that may still send commands while the notifications arrive
InitSession ==
    /\ \E ch \in Chains, n \in {0, SeenCap - 1} : Watching(ch, {"0xaa"}, n)
    /\ active_stalker_connections = {"A"}
    /\ handler = [c \in Clients |-> IF c = "A" THEN [IdleHandler EXCEPT !.pc = "idle"]
                                    ELSE IdleHandler]
    /\ tracing = {"session"}
    /\ recv_policy = "either"
    /\ budget = MaxSessionCmds
    /\ fresh_left = MaxFresh
    /\ junk_left = 0
NextSession ==
    \/ \E c \in Clients :
         \/ RecvCmd(c) \/ GetStalker(c) \/ CallWatch(c) \/ WatchRecv(c)
         \/ CallUnwatch(c) \/ UnwatchRecv(c) \/ CallStatus(c) \/ Reply(c)
    \/ \E i \in Insts :
         \/ LoopRecvAck(i) \/ LoopRecv(i) \/ LoopRecvFresh(i) \/ LoopIter(i)
         \/ BcastStep(i)
SpecSession == InitSession /\ [][NextSession]_vars

\* Broadcast: an adapter watching one wallet, clients that connect and leave
InitBroadcast ==
    /\ \E ch \in Chains : Watching(ch, {"0xaa"}, 0)
    /\ active_stalker_connections = {}
    /\ handler = [c \in Clients |-> IdleHandler]
    /\ tracing = {}
    /\ recv_policy = "either"
    /\ budget = 0
    /\ fresh_left = 0
    /\ junk_left = 0
NextBroadcast ==
    \/ \E c \in Clients : Accept(c) \/ Hello(c) \/ Disconnect(c)
    \/ \E i \in Insts : LoopRecv(i) \/ LoopIter(i) \/ BcastStep(i)
SpecBroadcast == InitBroadcast /\ [][NextBroadcast]_vars

\* Inbound noise: an adapter of either variant watching one or two wallets,
\* one greeted client that sends no command, notifications interleaved with
\* messages that are none
InitInbound ==
    /\ \E ch \in Chains, ws \in {{"0xaa"}, {"0xaa", "0xbb"}} : Watching(ch, ws, 0)
    /\ active_stalker_connections = {"A"}
    /\ handler = [c \in Clients |-> IF c = "A" THEN [IdleHandler EXCEPT !.pc = "idle"]
                                    ELSE IdleHandler]
    /\ tracing = {"calls"}
    /\ recv_policy = "either"
    /\ budget = 0
    /\ fresh_left = 0
    /\ junk_left = MaxJunk
NextInbound ==
    \E i \in Insts : LoopRecvOther(i) \/ LoopRecv(i) \/ LoopIter(i) \/ BcastStep(i)
SpecInbound == InitInbound /\ [][NextInbound]_vars

\* Frames: two greeted clients and no adapter yet; the clients send commands
\* for one chain and frames that are no command, or leave
InitFrames ==
    /\ Greeted
    /\ scope \in {{ch} : ch \in Chains}
    /\ tracing = {}
    /\ recv_policy = "either"
    /\ budget = MaxFrames
    /\ fresh_left = 0
    /\ junk_left = 0
NextFrames ==
    \/ \E c \in Clients :
         \/ RecvCmd(c) \/ RecvBadFrame(c) \/ Disconnect(c)
         \/ GetStalker(c) \/ ConnectDone(c) \/ CallWatch(c) \/ WatchRecv(c)
         \/ CallUnwatch(c) \/ UnwatchRecv(c) \/ CallStatus(c) \/ Reply(c)
    \/ \E i \in Insts : LoopStart(i) \/ LoopRecvAck(i)
SpecFrames == InitFrames /\ [][NextFrames]_vars

\* Cleanup among live handlers: the Solana adapter exists and watches a
\* wallet, no EVM adapter has been made yet, one greeted client sends commands
\* for either chain, and cleanup_stalkers() is called at any moment
InitCleanup ==
    /\ stalker_instances = EmptyDict
    /\ solana_stalker = 1
    /\ chain_of = [i \in Insts |-> IF i = 1 THEN "solana" ELSE None]
    /\ connected = [i \in Insts |-> i = 1]
    /\ websocket = [i \in Insts |-> IF i = 1 THEN "open" ELSE None]
    /\ watched_wallets = [i \in Insts |-> IF i = 1 THEN {"0xaa"} ELSE {}]
    /\ subscription_ids = [i \in Insts |-> EmptyDict]
    /\ last_seen_txs = [i \in Insts |-> EmptyDict]
    /\ last_activity = [i \in Insts |-> IF i = 1 THEN [w \in {"0xaa"} |-> 0] ELSE EmptyDict]
    /\ on_activity = [i \in Insts |-> IF i = 1 THEN "on_wallet_activity" ELSE None]
    /\ task = [i \in Insts |-> IF i = 1 THEN [IdleTask EXCEPT !.pc = "recv"] ELSE IdleTask]
    /\ pending = [i \in Insts |-> 0]
    /\ now = 0
    /\ calls = << >>
    /\ session = [i \in Insts |-> IF i = 1 THEN [w \in {"0xaa"} |-> NewSession] ELSE EmptyDict]
    /\ scope = Chains
    /\ first_returned = [x \in Chains |-> IF x = "solana" THEN 1 ELSE NoInst]
    /\ closer = IdleCloser
    /\ active_stalker_connections = {"A"}
    /\ handler = [c \in Clients |-> IF c = "A" THEN [IdleHandler EXCEPT !.pc = "idle"]
                                    ELSE IdleHandler]
    /\ tracing = {}
    /\ recv_policy = "either"
    /\ budget = MaxCleanupCmds
    /\ fresh_left = 0
    /\ junk_left = 0
NextCleanup ==
    \/ CleanupStart \/ DisconnectUnwatch \/ DisconnectUnwatchRecv \/ DisconnectLeave
    \/ DisconnectNext \/ DisconnectClosed \/ DisconnectJoined
    \/ \E c \in Clients :
         \/ RecvCmd(c) \/ GetStalker(c) \/ ConnectDone(c) \/ CallWatch(c)
         \/ WatchRecv(c) \/ CallUnwatch(c) \/ UnwatchRecv(c) \/ CallStatus(c)
         \/ Reply(c)
    \/ \E i \in Insts : LoopStart(i) \/ LoopRecvAck(i)
SpecCleanup == InitCleanup /\ [][NextCleanup]_vars

\* ====================================================== properties

\* C1: when _handle_wallet_activity is called twice in a row for the same
\* wallet and transaction identifier, the callback is invoked at most once,
\* whatever the wallet's recent-event set held before (also 100 identifiers).
TwiceInARowFiresOnce ==
    (/\ Len(calls) = 2
     /\ calls[1].inst = calls[2].inst
     /\ calls[1].wallet = calls[2].wallet
     /\ calls[1].tx = calls[2].tx
     /\ calls[1].tx \in Txs)
    => ~(calls[1].fired /\ calls[2].fired)

UnwatchLeavesAbsent ==
    [][\A c \in Clients :
         (/\ handler[c].action = "unwatch"
          /\ handler[c].pc \in {"call", "u_wait"}
          /\ handler'[c].pc = "reply")
         => Normalized(handler[c].st, handler[c].wallet)
              \notin watched_wallets'[handler[c].st]]_vars

\* C3 witness: unwatch_wallet has returned for a wallet that had been watched
\* and whose unsubscribe request the provider rejected, or whose recv raised.
UnwatchReturnedAfterFailure ==
    \E c \in Clients :
        /\ handler[c].pc = "reply" /\ handler[c].action = "unwatch"
        /\ handler[c].ret \in {"unsub_rejected", "unsub_raised"}
        /\ Normalized(handler[c].st, handler[c].wallet)
             \notin watched_wallets[handler[c].st]

\* C4: a pass of on_wallet_activity during which no other task changed the
\* registered set has tried every channel registered at its start, has left
\* the registered set equal to the original minus the channels whose send
\* failed, and has returned without raising.
PassPrunesExactlyFailed ==
    \A i \in Insts :
        (task[i].pc = "iter" /\ task[i].bres # "none" /\ ~task[i].bmut)
        => /\ task[i].bres = "returned"
           /\ task[i].bseen = task[i].bstart
           /\ active_stalker_connections = task[i].bstart \ task[i].bfailed

\* C4 witness: such a pass has returned after one send failed and another
\* succeeded.
PassReturnedWithFailure ==
    \E i \in Insts :
        /\ task[i].pc = "iter" /\ task[i].bres = "returned" /\ ~task[i].bmut
        /\ task[i].bfailed # {} /\ task[i].bfailed # task[i].bstart
        /\ active_stalker_connections = task[i].bstart \ task[i].bfailed

\* C5: active_stalker_connections is not added to or removed from while a
\* pass of on_wallet_activity is suspended inside its iteration.
NoMutationDuringPass ==
    [][\A i \in Insts :
         (task[i].pc = "bcast" /\ task'[i].pc = "bcast")
         => active_stalker_connections' = active_stalker_connections]_vars

\* C6: per chain at most one transport is open and at most one receive loop
\* is running.
OneAdapterPerChain ==
    \A ch \in Chains :
        /\ Cardinality({i \in Insts : chain_of[i] = ch /\ websocket[i] = "open"}) <= 1
        /\ Cardinality({i \in Insts : chain_of[i] = ch
                                        /\ task[i].pc \notin {"none", "done"}}) <= 1

\* C7: a command received after get_stalker has returned for its chain gets
\* the adapter returned first and waits for no connect().
LaterCallsReuse ==
    \A c \in Clients :
        (handler[c].late /\ handler[c].st # NoInst)
        => /\ handler[c].pc # "gs_connect"
           /\ handler[c].st = first_returned[handler[c].chain]

\* C8: a watch command for a wallet already watched on a connected adapter
\* sends nothing, leaves the adapter as it is and is answered watch_started.
WatchAgainIsNoOp ==
    [][\A c \in Clients :
         (/\ handler[c].pc = "call" /\ handler[c].action = "watch"
          /\ handler'[c].pc = "reply"
          /\ connected[handler[c].st] /\ websocket[handler[c].st] # None
          /\ Normalized(handler[c].st, handler[c].wallet)
               \in watched_wallets[handler[c].st])
         => /\ Frame(handler'[c]) = "watch_started"
            /\ pending' = pending
            /\ watched_wallets' = watched_wallets
            /\ subscription_ids' = subscription_ids
            /\ last_seen_txs' = last_seen_txs
            /\ last_activity' = last_activity]_vars

\* C9: a watch_wallet call whose subscribe request the provider rejects, or
\* whose send or recv raises, returns False and leaves watched_wallets,
\* subscription_ids, last_seen_txs and last_activity as they were.
FailedWatchLeavesNoTrace ==
    [][\A c \in Clients :
         (/\ handler[c].action = "watch" /\ handler[c].pc \in {"call", "w_wait"}
          /\ handler'[c].pc = "reply"
          /\ handler'[c].ans \in {"error", "raised"})
         => /\ handler'[c].ret = "False"
            /\ watched_wallets' = watched_wallets
            /\ subscription_ids' = subscription_ids
            /\ last_seen_txs' = last_seen_txs
            /\ last_activity' = last_activity]_vars

\* Subscribe requests of adapter i that were sent and whose call has neither
\* got its answer nor failed (WalletStalker); that the provider has not
\* answered yet (SolanaWalletStalker, which sends nothing else)
InFlight(i) ==
    IF IsEvm(i)
    THEN Cardinality({c \in Clients : handler[c].st = i /\ handler[c].pc = "w_wait"})
    ELSE pending[i]

\* C10: on one adapter at most one subscribe request is in flight.
OneSubscribeInFlight == \A i \in Insts : Live(i) => InFlight(i) <= 1

\* C11: when the recv() of the receive loop raises because the transport is
\* closed, the loop ends and the adapter's connected flag becomes False.
ReadFailureEndsLoop ==
    [][\A i \in Insts :
         (task[i].pc = "recv" /\ websocket[i] = "closed" /\ task'[i] # task[i])
         => (task'[i].pc = "done" /\ ~connected'[i])]_vars

\* An adapter whose transport closed and whose receive loop ended on that and
\* set connected = False
Failed(i) ==
    Live(i) /\ websocket[i] = "closed" /\ task[i].pc = "done" /\ ~connected[i]

\* C12: an adapter that a transport failure has disconnected stays
\* disconnected, and a watch command received for its chain from then on is
\* answered with an error frame and adds no wallet.
FailedChainRefusesWatch ==
    [][/\ \A i \in Insts : Failed(i) => ~connected'[i]
       /\ \A c \in Clients :
            (/\ handler[c].pc = "call" /\ handler[c].action = "watch"
             /\ handler[c].late
             /\ \E j \in Insts : chain_of[j] = handler[c].chain /\ Failed(j)
             /\ handler'[c] # handler[c])
            => /\ handler'[c].pc = "reply"
               /\ Frame(handler'[c]) = "error"
               /\ watched_wallets' = watched_wallets]_vars

WatchingBoth ==
    /\ stalker_instances = Put(EmptyDict, "ethereum", 1)
    /\ solana_stalker = 2
    /\ chain_of = [i \in Insts |-> IF i = 1 THEN "ethereum"
                                    ELSE IF i = 2 THEN "solana" ELSE None]
    /\ connected = [i \in Insts |-> i \in {1, 2}]
    /\ websocket = [i \in Insts |-> IF i \in {1, 2} THEN "open" ELSE None]
    /\ watched_wallets = [i \in Insts |-> IF i \in {1, 2} THEN {"0xaa"} ELSE {}]
    /\ subscription_ids =
         [i \in Insts |-> IF i = 1 THEN [w \in {"0xaa"} |-> "sub"] ELSE EmptyDict]
    /\ last_seen_txs = [i \in Insts |-> EmptyDict]
    /\ last_activity =
         [i \in Insts |-> IF i \in {1, 2} THEN [w \in {"0xaa"} |-> 0] ELSE EmptyDict]
    /\ on_activity = [i \in Insts |-> IF i \in {1, 2} THEN "on_wallet_activity" ELSE None]
    /\ task = [i \in Insts |-> IF i \in {1, 2} THEN [IdleTask EXCEPT !.pc = "recv"]
                                ELSE IdleTask]
    /\ pending = [i \in Insts |-> 0]
    /\ now = 0
    /\ calls = << >>
    /\ session =
         [i \in Insts |-> IF i \in {1, 2} THEN [w \in {"0xaa"} |-> NewSession] ELSE EmptyDict]
    /\ scope = Chains
    /\ first_returned = [x \in Chains |-> IF x = "ethereum" THEN 1 ELSE 2]
    /\ closer = IdleCloser

\* Shutdown: an adapter of either variant watching one or two wallets, or one
\* of each variant, every client gone; notifications keep arriving and the
\* transport may close while cleanup_stalkers runs
InitShutdown ==
    /\ \/ \E ch \in Chains, ws \in {{"0xaa"}, {"0xaa", "0xbb"}} : Watching(ch, ws, 0)
       \/ WatchingBoth
    /\ active_stalker_connections = {}
    /\ handler = [c \in Clients |-> IdleHandler]
    /\ tracing = {}
    /\ recv_policy = "either"
    /\ budget = 0
    /\ fresh_left = 0
    /\ junk_left = 0
NextShutdown ==
    \/ ShutdownStep
    \/ \E i \in Insts :
         \/ TransportDrop(i) \/ LoopRecv(i) \/ LoopIter(i) \/ LoopRecvAck(i)
         \/ LoopRecvClosed(i) \/ LoopWake(i)
SpecShutdown == InitShutdown /\ [][NextShutdown]_vars

\* C15: once disconnect() of an adapter has returned, its connected flag is
\* False, its watched_wallets is empty, its transport is closed and its
\* receive loop has been cancelled or has ended.
DisconnectedForGood ==
    \A i \in closer.closed :
        /\ ~connected[i]
        /\ watched_wallets[i] = {}
        /\ websocket[i] = "closed"
        /\ task[i].pc \in {"done", "cancelled"}

\* C15 witness: disconnect() has returned for an adapter after the
\* unsubscribe request of one of its wallets raised.
DisconnectReturnedAfterRaise ==
    \E i \in closer.closed : closer.raised # {} /\ watched_wallets[i] = {}

\* C16: on a Solana adapter one logs notification leads to
\* _handle_wallet_activity for one watched wallet only, the wallet whose
\* subscription produced it: while one notification is processed, no second
\* wallet is handled.
OneWalletPerNotification ==
    \A i \in Insts :
        (IsSolana(i) /\ task[i].pc \in {"iter", "bcast"})
        => Cardinality(task[i].seen) <= 1

\* Matching: an EVM adapter watching nothing or "0xbb", one greeted client
\* that watches and unwatches addresses in either letter case while
\* notifications arrive
InitMatch ==
    /\ \E ws \in {{}, {"0xbb"}} : Watching("ethereum", ws, 0)
    /\ active_stalker_connections = {"A"}
    /\ handler = [c \in Clients |-> IF c = "A" THEN [IdleHandler EXCEPT !.pc = "idle"]
                                    ELSE IdleHandler]
    /\ tracing = {"calls"}
    /\ recv_policy = "either"
    /\ budget = MaxMatchCmds
    /\ fresh_left = 0
    /\ junk_left = 0
NextMatch ==
    \/ \E c \in Clients :
         \/ RecvCmd(c) \/ GetStalker(c) \/ CallWatch(c) \/ WatchRecv(c)
         \/ CallUnwatch(c) \/ UnwatchRecv(c) \/ CallStatus(c) \/ Reply(c)
    \/ \E i \in Insts : LoopRecvAck(i) \/ LoopRecv(i) \/ LoopIter(i) \/ BcastStep(i)
SpecMatch == InitMatch /\ [][NextMatch]_vars

\* C17: on the EVM adapter, while a message whose address field equals a
\* watched wallet up to letter case is processed, the wallet is visited,
\* _handle_wallet_activity is called for it once, and the call dispatches an
\* event when the transaction is new to the wallet.  The message is not left
\* before the wallet was visited, unless the watched set changed size under the
\* iteration.
CaseBlindMatchFiresOnce ==
    [][\A i \in Insts :
         (IsEvm(i) /\ task[i].pc = "iter" /\ task[i].addr # None)
         => /\ \A w \in watched_wallets[i] :
                 (/\ Lower(w) = Lower(task[i].addr)
                  /\ w \notin task[i].seen /\ w \in task'[i].seen)
                 => /\ Len(calls') > 0
                    /\ calls'[Len(calls')] =
                         [inst |-> i, wallet |-> w, tx |-> task[i].tx,
                          fired |-> task[i].tx \notin SeenOf(i, w).ids]
            /\ \A w \in task[i].seen : w \in task'[i].seen => calls' = calls
                  \/ calls'[Len(calls')].wallet # w
            /\ (/\ task'[i].pc \notin {"iter", "bcast"}
                /\ Cardinality(watched_wallets[i]) = Cardinality(task[i].start))
               => \A w \in watched_wallets[i] \cap task[i].start :
                      Lower(w) = Lower(task[i].addr) => w \in task[i].seen]_vars

\* C17 witness: a wallet watched through a command is dispatched for a message
\* that spells its address in the other letter case.
UpperCaseMessageDispatched ==
    \E i \in Insts :
        /\ IsEvm(i) /\ task[i].pc \in {"iter", "bcast"}
        /\ task[i].addr = "0xAA" /\ "0xaa" \in task[i].seen
        /\ Len(calls) > 0
        /\ calls[Len(calls)] =
             [inst |-> i, wallet |-> "0xaa", tx |-> task[i].tx, fired |-> TRUE]

\* Status: an adapter of either variant that watches nothing yet, two greeted
\* clients that send commands while the clock moves on; no notification
\* arrives
InitStatus ==
    /\ \E ch \in Chains : Watching(ch, {}, 0)
    /\ active_stalker_connections = Clients
    /\ handler = [c \in Clients |-> [IdleHandler EXCEPT !.pc = "idle"]]
    /\ tracing = {}
    /\ recv_policy = "either"
    /\ budget = MaxStatusCmds
    /\ fresh_left = 0
    /\ junk_left = 0
NextStatus ==
    \/ \E c \in Clients :
         \/ RecvCmd(c) \/ GetStalker(c) \/ CallWatch(c) \/ WatchRecv(c)
         \/ CallUnwatch(c) \/ UnwatchRecv(c) \/ CallStatus(c) \/ Reply(c)
    \/ \E i \in Insts : LoopRecvAck(i)
    \/ Tick
SpecStatus == InitStatus /\ [][NextStatus]_vars

\* C18: a status query made when every other client's command has been
\* answered and no activity has arrived lists each watched wallet with state
\* "idle" and tx_count 0.
StatusAfterWatchIdle ==
    [][\A c \in Clients :
         (/\ handler[c].pc = "call" /\ handler[c].action = "status"
          /\ handler'[c].pc = "reply" /\ handler'[c].ret = "status"
          /\ \A c2 \in Clients \ {c} : handler[c2].pc = "idle")
         => \A w \in watched_wallets[handler[c].st] :
                /\ w \in DOMAIN handler'[c].report
                /\ handler'[c].report[w].state = "idle"
                /\ handler'[c].report[w].tx_count = 0]_vars

\* C19: get_watched_wallets_status lists every watched wallet; with d the whole
\* seconds since its last activity, the state is "active" exactly when d < 30,
\* and the text is d seconds when d < 30, floor(d / 60) minutes when
\* 30 <= d < 3600, and floor(d / 3600) hours otherwise.
StatusByAge ==
    [][\A c \in Clients :
         (/\ handler[c].pc = "call" /\ handler[c].action = "status"
          /\ handler'[c].pc = "reply" /\ handler'[c].ret = "status")
         => /\ DOMAIN handler'[c].report = watched_wallets[handler[c].st]
            /\ \A w \in watched_wallets[handler[c].st] :
                 LET d == (now - last_activity[handler[c].st][w]) \div TicksPerSecond
                     e == handler'[c].report[w] IN
                 /\ e.state = "active" <=> d < 30
                 /\ e.state \in {"active", "idle"}
                 /\ d < 30 => e.last_activity = <<d, "s">>
                 /\ (30 <= d /\ d < 3600) => e.last_activity = <<d \div 60, "m">>
                 /\ d >= 3600 => e.last_activity = <<d \div 3600, "h">>]_vars

\* C19 witness: a status report lists a wallet whose last activity is 3700
\* seconds old as idle, "1h ago".
ReportedOneHourAgo ==
    \E c \in Clients :
        /\ handler[c].pc = "reply" /\ handler[c].ret = "status"
        /\ \E w \in DOMAIN handler[c].report :
             /\ handler[c].report[w].state = "idle"
             /\ handler[c].report[w].last_activity = <<1, "h">>
             /\ now - last_activity[handler[c].st][w] = 3700 * TicksPerSecond

\* C20: a command during which get_stalker, connect, watch_wallet,
\* unwatch_wallet or the status query raised, or watch_wallet returned False, is
\* answered with an error frame to a client that is still registered; after the
\* frame the handler waits for the client's next command with the channel still
\* registered, unless sending the frame itself failed because the client is gone.
FailureAnsweredWithError ==
    [][\A c \in Clients :
         (/\ handler[c].pc = "reply" /\ handler[c].ret \in {"raised", "False"}
          /\ handler'[c] # handler[c])
         => /\ Frame(handler[c]) = "error"
            /\ c \in active_stalker_connections
            /\ \/ handler'[c].pc = "idle" /\ c \in active_stalker_connections'
               \/ handler'[c].pc = "gone"]_vars

\* C20 witness: a registered client is about to be answered for a watch
\* command in which watch_wallet returned False, received after the connect()
\* of an adapter had failed.
ServedAfterFailure ==
    \E c \in Clients :
        /\ handler[c].pc = "reply" /\ handler[c].ret = "False"
        /\ handler[c].late
        /\ c \in active_stalker_connections
        /\ \E i \in Insts : Live(i) /\ ~connected[i] /\ websocket[i] = None

\* C22: an unwatch command or a status command constructs no adapter, opens
\* no transport and leaves the singleton directory unchanged.
OnlyWatchCreates ==
    [][\A c \in Clients :
         (/\ handler[c].action \in {"unwatch", "status"}
          /\ handler[c].pc \in {"gs", "gs_connect"}
          /\ handler'[c] # handler[c])
         => /\ chain_of' = chain_of
            /\ websocket' = websocket
            /\ stalker_instances' = stalker_instances
            /\ solana_stalker' = solana_stalker]_vars

\* C23: when the command loop of a client's handler ends (the client
\* disconnected or a frame could not be sent to it), its channel is no longer
\* in active_stalker_connections and no adapter's watched_wallets,
\* subscription_ids or last_seen_txs changes.
LeavingKeepsWatches ==
    [][\A c \in Clients :
         (handler[c].pc \notin {"off", "hello", "dead", "gone"} /\ handler'[c].pc = "gone")
         => /\ c \notin active_stalker_connections'
            /\ watched_wallets' = watched_wallets
            /\ subscription_ids' = subscription_ids
            /\ last_seen_txs' = last_seen_txs]_vars

\* C23 witness: every client has left and an adapter still watches a wallet.
LastClientLeftWatching ==
    /\ active_stalker_connections = {}
    /\ \A c \in Clients : handler[c].pc = "gone"
    /\ \E i \in Insts : watched_wallets[i] # {} /\ connected[i]

\* C24: when _handle_wallet_activity has recorded a transaction identifier for
\* a wallet, the identifier is in the wallet's recent-event set when the call
\* returns: the eviction at the cap never removes the identifier just
\* recorded.
JustRecordedIsKept ==
    Len(calls) > 0 =>
      LET c == calls[Len(calls)] IN
        (c.fired /\ c.tx \in Txs) => SeenHas(SeenOf(c.inst, c.wallet), c.tx)

\* C25: between two handled messages every recent-event set holds at most 100
\* identifiers, and the tx_count the status report gives for a wallet is at
\* most 100.
RecentSetWithinCap ==
    \A i \in Insts :
      /\ \A w \in DOMAIN last_seen_txs[i] : SeenLen(last_seen_txs[i][w]) <= SeenCap
      /\ \A w \in watched_wallets[i] : WalletStatus(i, w).tx_count <= SeenCap

\* C25 witness: two identifiers in a row were recorded for one wallet and its
\* set holds exactly 100, so the second add went through the eviction.
EvictedBackToCap ==
    /\ Len(calls) = 2
    /\ calls[1].inst = calls[2].inst /\ calls[1].wallet = calls[2].wallet
    /\ calls[1].fired /\ calls[2].fired
    /\ SeenLen(SeenOf(calls[2].inst, calls[2].wallet)) = SeenCap
    /\ WalletStatus(calls[2].inst, calls[2].wallet).tx_count = SeenCap

\* C29: on the EVM adapter the message a watch_wallet or unwatch_wallet call
\* reads as its response is the acknowledgment of a request: an
\* acknowledgment leaves the transport only into a call waiting for it, never
\* into the receive loop, and a call waiting on an adapter with subscriptions
\* that reads a message from the open transport reads an acknowledgment,
\* never a notification.
ResponseIsOwnAcknowledgment ==
    [][\A i \in Insts : IsEvm(i) =>
         /\ pending'[i] < pending[i]
            => \E c \in Clients :
                 /\ handler[c].st = i /\ handler[c].pc \in {"w_wait", "u_wait"}
                 /\ handler'[c].pc = "reply"
         /\ \A c \in Clients :
              (/\ handler[c].st = i /\ handler[c].pc \in {"w_wait", "u_wait"}
               /\ handler'[c].pc = "reply" /\ websocket[i] = "open"
               /\ watched_wallets[i] # {})
              => pending'[i] = pending[i] - 1]_vars

\* C30: the connected flag of an EVM adapter turns False only in disconnect()
\* or when the receive loop sees the transport fail: while the transport is
\* open no watch_wallet or unwatch_wallet call, in any interleaving with the
\* loop, ends the loop or clears the flag.
CallsLeaveLoopRunning ==
    [][\A i \in Insts :
         (IsEvm(i) /\ websocket[i] = "open" /\ closer.st # i)
         => /\ connected[i] => connected'[i]
            /\ task[i].pc \notin {"none", "done"} => task'[i].pc # "done"]_vars

\* C26: when the on_activity callback raises while a match is handled, the
\* exception stays inside _handle_wallet_activity: the receive loop goes on
\* with the message, the adapter stays Connected with its transport, and the
\* loop's next steps lead it back to recv, never to its end.
CallbackFailureContained ==
    [][\A i \in Insts :
         /\ (task[i].pc = "bcast" /\ task'[i].bres = "raised")
            => /\ task'[i].pc = "iter"
               /\ connected'[i] /\ websocket'[i] = websocket[i]
               /\ watched_wallets'[i] = watched_wallets[i]
         /\ (task[i].bres = "raised" /\ task'[i] # task[i])
            => /\ task'[i].pc \in {"iter", "bcast", "recv"}
               /\ connected'[i]]_vars

\* C26 witness: the callback raised for a message, the adapter is still
\* Connected and the loop's next step takes it back to recv.
NextMessageAwaitedAfterRaise ==
    \E i \in Insts :
        /\ task[i].pc = "iter" /\ task[i].bres = "raised"
        /\ connected[i] /\ websocket[i] = "open"
        /\ ENABLED (LoopIter(i) /\ task'[i].pc = "recv")

\* C27: the receive loop of an adapter handles one message at a time: while it
\* is processing a message (iterating the watched wallets or suspended in the
\* callback) the message it holds stays the same and the wallets visited only
\* grow, so the next message is taken from the transport only after the
\* processing of the current one, its callbacks included, is over.
OneMessageAtATime ==
    [][\A i \in Insts :
         (task[i].pc \in {"iter", "bcast"} /\ task'[i].pc \in {"iter", "bcast"})
         => /\ task'[i].tx = task[i].tx
            /\ task'[i].addr = task[i].addr
            /\ task'[i].topics = task[i].topics
            /\ task'[i].start = task[i].start
            /\ task[i].seen \subseteq task'[i].seen]_vars

\* C27 witness: the callback for a message is suspended in a send, the
\* transport is open, and the loop cannot take another message.
CallbackHoldsTheLoop ==
    \E i \in Insts :
        /\ task[i].pc = "bcast" /\ websocket[i] = "open" /\ connected[i]
        /\ ~ENABLED LoopRecv(i)

\* Callback: an adapter of either variant that watches nothing yet, two
\* greeted clients that send commands while notifications arrive and are
\* broadcast
InitCallback ==
    /\ \E ch \in Chains : Watching(ch, {}, 0)
    /\ active_stalker_connections = Clients
    /\ handler = [c \in Clients |-> [IdleHandler EXCEPT !.pc = "idle"]]
    /\ tracing = {}
    /\ recv_policy = "either"
    /\ budget = MaxCallbackCmds
    /\ fresh_left = 0
    /\ junk_left = 0
NextCallback ==
    \/ \E c \in Clients :
         \/ RecvCmd(c) \/ GetStalker(c) \/ CallWatch(c) \/ WatchRecv(c)
         \/ CallUnwatch(c) \/ UnwatchRecv(c) \/ CallStatus(c) \/ Reply(c)
    \/ \E i \in Insts :
         \/ LoopRecvAck(i) \/ LoopRecvNotif(i, {"t1"}) \/ LoopIter(i) \/ BcastStep(i)
SpecCallback == InitCallback /\ [][NextCallback]_vars

InitAnswer ==
    /\ Greeted
    /\ scope \in {{ch} : ch \in Chains}
    /\ tracing = {}
    /\ recv_policy \in {"raise", "wait"}
    /\ budget = MaxAnswerCmds
    /\ fresh_left = 0
    /\ junk_left = 0
NextAnswer ==
    \/ \E c \in Clients :
         \/ RecvCmd(c) \/ GetStalker(c) \/ ConnectDone(c) \/ CallWatch(c)
         \/ WatchRecv(c) \/ CallUnwatch(c) \/ UnwatchRecv(c) \/ CallStatus(c)
         \/ Reply(c)
    \/ \E i \in Insts :
         \/ LoopStart(i) \/ LoopRecvAck(i) \/ LoopRecvNotif(i, {NoTx})

\* The loop of adapter i has not ended
LoopRunning(i) == task[i].pc \in {"created", "recv", "iter", "bcast", "sleep"}

\* A coroutine waiting in recv() of adapter i is owed a message: the transport
\* is closed (recv raises), a response of the provider is on its way, or the
\* loop is running and the transport keeps delivering notifications
Delivering(i) ==
    i # NoInst /\ (websocket[i] = "closed" \/ pending[i] > 0 \/ LoopRunning(i))

\* The event loop runs the coroutine that is ready (a handler between two of
\* its awaits, a loop task just created), a connect and a send to a client
\* complete or raise, and a message that is owed to a waiting watch_wallet
\* call is delivered to one.
RunningStep ==
    \/ \E c \in Clients :
         GetStalker(c) \/ CallWatch(c) \/ CallUnwatch(c) \/ CallStatus(c)
    \/ \E i \in Insts : LoopStart(i)
FairAnswer ==
    /\ WF_vars(RunningStep)
    /\ SF_vars(\E c \in Clients : ConnectDone(c))
    /\ SF_vars(\E c \in Clients : Reply(c))
    /\ SF_vars(\E c \in Clients : WatchRecv(c) /\ Delivering(handler[c].st))
SpecAnswer == InitAnswer /\ [][NextAnswer]_vars /\ FairAnswer

\* C28: every watch command that carries a wallet is eventually answered:
\* its handler reaches the send of one frame, watch_started or error, and
\* after that send it is back in receive_text or has ended; provided the
\* provider answers every request and the transport keeps delivering while
\* the loop runs.
WatchEventuallyAnswered ==
    /\ \A c \in Clients :
         (handler[c].pc = "gs" /\ handler[c].action = "watch")
           ~> (/\ handler[c].pc = "reply" /\ handler[c].action = "watch"
               /\ Frame(handler[c]) \in {"watch_started", "error"})
    /\ [][\A c \in Clients :
             (handler[c].pc = "reply" /\ handler[c].action = "watch"
                /\ handler'[c] # handler[c])
             => handler'[c].pc \in {"idle", "gone"}]_vars

\* C28 witness: on a transport that raises for a second recv(), a watch call
\* that waited in recv() has read the acknowledgment and watch_started is
\* being sent.
WatchAnsweredAfterWaiting ==
    \E c \in Clients :
        /\ recv_policy = "raise"
        /\ handler[c].pc = "reply" /\ handler[c].action = "watch"
        /\ handler[c].ans = "result" /\ IsEvm(handler[c].st)
        /\ Frame(handler[c]) = "watch_started"

\* C33: when unwatch_wallet(w) returns for a wallet that was watched, the
\* adapter holds no per-wallet state for w: w is in none of watched_wallets,
\* subscription_ids, last_seen_txs and last_activity.
UnwatchLeavesNoState ==
    [][\A c \in Clients :
         LET i == handler[c].st
             w == Normalized(i, handler[c].wallet) IN
         (/\ handler[c].action = "unwatch"
          /\ handler[c].pc \in {"call", "u_wait"}
          /\ handler'[c].pc = "reply"
          /\ w \in watched_wallets[i])
         => /\ w \notin watched_wallets'[i]
            /\ w \notin DOMAIN subscription_ids'[i]
            /\ w \notin DOMAIN last_seen_txs'[i]
            /\ w \notin DOMAIN last_activity'[i]]_vars

\* C37: every channel in active_stalker_connections belongs to a handler that
\* is still running; a handler that has returned or raised, also on a greeting
\* that could not be sent, has left the set.
RegisteredChannelsAreServed ==
    \A c \in active_stalker_connections : handler[c].pc \notin {"off", "dead", "gone"}

\* C35: every adapter that get_stalker returns to a caller has completed a
\* successful connect(): its transport was opened and its receive loop was
\* created.
ReturnedAdapterHasConnected ==
    [][\A c \in Clients :
         (handler[c].pc \in {"gs", "gs_connect"} /\ handler'[c].pc = "call")
         => /\ websocket'[handler'[c].st] # None
            /\ task'[handler'[c].st].pc # "none"]_vars

\* C31: when the receive loop leaves a message, every wallet that was watched
\* when the message's iteration began, is still watched and matches the
\* message has been visited (and so handed to _handle_wallet_activity), also
\* when a watch or unwatch call changed the watched set in between.
NoDispatchLostToMutation ==
    [][\A i \in Insts :
         (task[i].pc = "iter" /\ task'[i].pc \notin {"iter", "bcast"})
         => \A w \in task[i].start \cap watched_wallets[i] :
              Match(i, w, task[i]) => w \in task[i].seen]_vars

\* C32: on the EVM adapter one notification with a transaction hash hands a
\* watched wallet to _handle_wallet_activity if and only if the wallet equals
\* the address field up to letter case or is carried by a topic; a wallet that
\* does not match leaves calls, recent events and last activity untouched;
\* every call belongs to a wallet not visited before in this message; a
\* message without a transaction hash is never iterated and causes no call;
\* and when the watched set is the one the iteration began with, the message
\* is left only after every watched wallet was visited.
MatchDecidesDispatch ==
    [][\A i \in Insts :
         IsEvm(i) =>
         /\ task[i].pc = "iter" =>
              /\ \A w \in watched_wallets[i] :
                   (w \notin task[i].seen /\ w \in task'[i].seen) =>
                     IF \/ (task[i].addr # None /\ Lower(w) = Lower(task[i].addr))
                        \/ \E topic \in task[i].topics : Lower(w) = Lower(topic)
                     THEN /\ Len(calls') > 0
                          /\ calls'[Len(calls')] =
                               [inst |-> i, wallet |-> w, tx |-> task[i].tx,
                                fired |-> task[i].tx \notin SeenOf(i, w).ids]
                     ELSE /\ calls' = calls
                          /\ last_seen_txs' = last_seen_txs
                          /\ last_activity' = last_activity
                          /\ task'[i].pc = "iter"
              /\ calls' # calls =>
                   \E w \in watched_wallets[i] \ task[i].seen :
                     /\ task'[i].seen = task[i].seen \cup {w}
                     /\ calls'[Len(calls')].wallet = w
              /\ (/\ task'[i].pc \notin {"iter", "bcast"}
                  /\ watched_wallets[i] = task[i].start)
                 => watched_wallets[i] \subseteq task[i].seen
         /\ task[i].pc # "iter" => calls' = calls
         /\ task'[i].pc = "iter" => task'[i].tx # NoTx]_vars

\* C32 witness: one message matched two watched wallets, one through its
\* address field and one through a topic, and each got its own event.
TwoWalletsOneMessage ==
    \E i \in Insts :
        /\ IsEvm(i) /\ task[i].pc \in {"iter", "bcast"}
        /\ task[i].addr = "0xAA" /\ task[i].topics = {"0xbb"}
        /\ task[i].seen = {"0xaa", "0xbb"}
        /\ Len(calls) = 2
        /\ calls[1].wallet # calls[2].wallet
        /\ \A k \in 1..2 : /\ calls[k].inst = i /\ calls[k].tx = task[i].tx
                           /\ calls[k].fired

\* C34: when the receive loop reads a message that is not a subscription
\* notification (unparseable, or of another kind), watched_wallets,
\* last_seen_txs, last_activity and connected keep their values, no call of
\* _handle_wallet_activity or of the callback is made, and the loop is
\* suspended in recv() again.
NoiseIsIgnored ==
    [][\A i \in Insts :
         (LoopInRecv(i) /\ junk_left' < junk_left)
         => /\ watched_wallets' = watched_wallets
            /\ last_seen_txs' = last_seen_txs
            /\ last_activity' = last_activity
            /\ connected' = connected
            /\ calls' = calls
            /\ active_stalker_connections' = active_stalker_connections
            /\ task' = task
            /\ LoopInRecv(i)']_vars

\* C34 witness: the loop has read every message of the run that is no
\* notification, after it dispatched events, and waits for the next message.
LoopSurvivedNoise ==
    \E i \in Insts :
        /\ junk_left = 0 /\ Len(calls) = 2
        /\ LoopInRecv(i) /\ connected[i] /\ websocket[i] = "open"

\* C39: the receive loop hands a wallet to _handle_wallet_activity only while
\* the wallet is in watched_wallets; a recent-event or last-activity entry is
\* created only for a wallet that is watched after the step, a last-activity
\* time is refreshed only for a watched wallet, and recent-event entries exist
\* for watched wallets only.
DispatchOnlyWhileWatched ==
    [][\A i \in Insts :
         /\ task[i].pc = "iter" =>
              \A w \in task'[i].seen \ task[i].seen :
                  w \in watched_wallets[i] /\ w \in watched_wallets'[i]
         /\ calls' # calls =>
              calls'[Len(calls')].wallet \in watched_wallets[calls'[Len(calls')].inst]
         /\ \A w \in DOMAIN last_seen_txs'[i] :
              (w \notin DOMAIN last_seen_txs[i] \/ last_seen_txs'[i][w] # last_seen_txs[i][w])
              => w \in watched_wallets'[i]
         /\ \A w \in DOMAIN last_activity'[i] :
              (w \notin DOMAIN last_activity[i] \/ last_activity'[i][w] # last_activity[i][w])
              => w \in watched_wallets'[i]
         /\ DOMAIN last_seen_txs'[i] \subseteq watched_wallets'[i]]_vars

\* C39 witness: a wallet was watched and unwatched; a later message that names
\* it and another watched wallet is dispatched for the other wallet only.
UnwatchedWalletPassedOver ==
    \E i \in Insts :
        /\ task[i].pc \in {"iter", "bcast"}
        /\ task[i].addr = "0xAA" /\ task[i].topics = {"0xbb"}
        /\ "0xaa" \in DOMAIN last_activity[i] /\ "0xaa" \notin watched_wallets[i]
        /\ task[i].start = {"0xbb"} /\ task[i].seen = {"0xbb"}
        /\ Len(calls) > 0 /\ \A k \in 1..Len(calls) : calls[k].wallet = "0xbb"

\* C36: an unwatch_wallet call for a watched wallet on an open transport tells
\* the provider: by the time it returns or suspends it has sent one
\* unsubscribe request, so that no provider-side subscription outlives the
\* wallet's membership in watched_wallets.
UnwatchTellsProvider ==
    [][\A c \in Clients :
         LET i == handler[c].st
             w == Normalized(i, handler[c].wallet) IN
         (/\ handler[c].action = "unwatch" /\ handler[c].pc = "call"
          /\ handler'[c].pc \in {"reply", "u_wait"}
          /\ w \in watched_wallets[i] /\ websocket[i] = "open")
         => pending'[i] = pending[i] + 1]_vars

\* C38: every frame a handler receives keeps the handler in its command loop:
\* the frame leads to the serving of a command or to the send of a reply, and
\* the channel stays registered.
EveryFrameKeepsTheLoop ==
    [][\A c \in Clients :
         (handler[c].pc = "idle" /\ handler'[c].pc # "idle" /\ budget' < budget)
         => /\ handler'[c].pc \in {"gs", "reply"}
            /\ c \in active_stalker_connections']_vars

\* C40: in the step in which cleanup_stalkers() returns or raises, the
\* directory holds no adapter: _stalker_instances is empty and
\* _solana_stalker is None.
CleanupLeavesDirectoryEmpty ==
    [][(closer.pc \notin {"finished", "raised"} /\ closer'.pc \in {"finished", "raised"})
       => /\ stalker_instances' = EmptyDict
          /\ solana_stalker' = NoInst]_vars
====
